---- MODULE Spec2Model ----
(***************************************************************************)
(* A model of btcaaron: the Taproot tree compiler (tree/builder.py,        *)
(* tree/program.py, tree/tapmath.py), the spend builder (spend/builder.py) *)
(* and the PSBT workflow (psbt.py).                                        *)
(*                                                                         *)
(* Modelling conventions                                                   *)
(*  - bytes are sequences of integers 0..255;                              *)
(*  - a 32-byte hash value is modelled by a natural number, the value of   *)
(*    the 32 bytes read big-endian, so that the lexicographic order of     *)
(*    the bytes is the order of the numbers; SHA-256 is modelled as a      *)
(*    collision-free function (an injective code of its input);            *)
(*  - list indices keep the code's 0-based numbering at every interface;   *)
(*    a TLA+ sequence s holds the code's s[i] at position i + 1.           *)
(***************************************************************************)
EXTENDS Integers, Sequences, FiniteSets, TLC

VARIABLES
    \* ---- tapmath functions under test (tree/tapmath.py) ----
    mk_pc,            \* position in the sequence of calls made on the input
    mk_leaf_hashes,   \* the argument leaf_hashes: List[bytes]
    mk_index,         \* the argument leaf_index
    mk_root,          \* result of compute_merkle_root(leaf_hashes)
    mk_tree_root,     \* root committed to by the nested-list compile path
    mk_proof,         \* result of compute_merkle_proof(leaf_hashes, leaf_index)
    mk_key,           \* the key whose x-only bytes are internal_key_bytes
    mk_is_odd,        \* the argument is_odd (output key parity)
    mk_cb,            \* result of compute_control_block(...)
    \* ---- a TapTree and what build() returned (tree/builder.py) ----
    t_internal_key,   \* TapTree._internal_key
    t_network,        \* TapTree._network
    t_leaves,         \* TapTree._leaves
    t_leaf_counter,   \* TapTree._leaf_counter
    t_last,           \* how the last call on the TapTree ended
    t_result,         \* what the last build() returned
    t_program,        \* the first TaprootProgram built, which the caller keeps
    \* ---- a SpendBuilder (spend/builder.py) ----
    sb,               \* the SpendBuilder object
    sb_ret,           \* what the last call on the SpendBuilder returned
    \* ---- a Psbt (psbt.py) ----
    psbt,             \* the Psbt object the caller holds
    psbt2,            \* the PsbtV2 object the caller holds
    wire,             \* a serialized Psbt or PsbtV2 not parsed yet (empty: none)
    p_ret,            \* the last call on the Psbt or PsbtV2 and how it ended
    p_keys,           \* the keys sign_with was called with
    \* ---- one call of broadcast_parallel (network/broadcast.py) ----
    bp_pc,            \* where the calling thread is
    bp_tx_hex,        \* the argument tx_hex
    bp_futures,       \* provider -> the future of its _try_broadcast call
    bp_completed,     \* the providers whose calls have ended, in that order
    bp_queue,         \* futures as_completed() has ready to yield, next first
    bp_pending,       \* futures as_completed() still waits for
    bp_result,        \* what broadcast_parallel returns or raises
    \* ---- the faucet server (faucet_server/app.py) ----
    f_wif,            \* FAUCET_WIF is set
    f_now,            \* the clock time.time() reads
    f_last_drip,      \* _last_drip: address -> timestamp
    f_req,            \* the /drip requests being served, one per server thread
    f_responses       \* every response sent: address, status, request time

b_vars == << sb, sb_ret >>

p_vars == << psbt, psbt2, wire, p_ret, p_keys >>

t_vars == << t_internal_key, t_network, t_leaves, t_leaf_counter, t_last, t_result,
            t_program >>

mk_vars == << mk_pc, mk_leaf_hashes, mk_index, mk_root, mk_tree_root, mk_proof,
              mk_key, mk_is_odd, mk_cb >>

bp_vars == << bp_pc, bp_tx_hex, bp_futures, bp_completed, bp_queue, bp_pending,
              bp_result >>

f_vars == << f_wif, f_now, f_last_drip, f_req, f_responses >>

\* the helpers outside the core
ext_vars == << bp_vars, f_vars >>

vars == << mk_vars, t_vars, b_vars, p_vars, ext_vars >>

-----------------------------------------------------------------------------
(* Bounds of the model *)

\* longest list of leaves given to the tapmath functions
MaxLeaves == 5

\* number of distinct 32-byte leaf hash values the inputs are drawn from
NumLeafHashes == 3

\* leaf hash values are 1..LeafHashSpace, branch hash values lie above
LeafHashSpace == 16

\* most leaf-adding calls made on one TapTree
MaxTreeLeaves == 3

\* most outputs added to a SpendBuilder
MaxOutputs == 1

\* most keys passed to SpendBuilder.sign() in total
MaxSigners == 2

-----------------------------------------------------------------------------
(* Generic helpers *)

Range(s) == { s[i] : i \in 1..Len(s) }

Reverse(s) == [ i \in 1..Len(s) |-> s[Len(s) + 1 - i] ]

\* all sequences over S of length lo..hi
SeqsOf(S, lo, hi) == UNION { [1..n -> S] : n \in lo..hi }

RECURSIVE Concat(_)
\* b"".join(list_of_byte_strings)
Concat(ss) == IF ss = << >> THEN << >> ELSE Head(ss) \o Concat(Tail(ss))

RECURSIVE BitAnd(_, _)
\* a & b on naturals
BitAnd(a, b) ==
    IF a = 0 \/ b = 0 THEN 0
    ELSE (IF a % 2 = 1 /\ b % 2 = 1 THEN 1 ELSE 0) + 2 * BitAnd(a \div 2, b \div 2)

RECURSIVE BitOr(_, _)
\* a | b on naturals
BitOr(a, b) ==
    IF a = 0 THEN b
    ELSE IF b = 0 THEN a
    ELSE (IF a % 2 = 1 \/ b % 2 = 1 THEN 1 ELSE 0) + 2 * BitOr(a \div 2, b \div 2)

-----------------------------------------------------------------------------
(* Keys (key.py) *)

\* the signing keys of the model
Keys == { "alice", "bob", "carol" }

\* first byte of each key's x-only public key
KeyTag(k) == CASE k = "alice" -> 80 [] k = "bob" -> 132 [] OTHER -> 23

\* Key.xonly as bytes: 32 bytes, distinct for distinct keys
xonly(k) == [ i \in 1..32 |-> (KeyTag(k) + i - 1) % 256 ]

-----------------------------------------------------------------------------
(* tree/tapmath.py *)

LEAF_VERSION == 192

\* a hash value (a natural number) as its 32 bytes, big-endian
Bytes32(h) ==
    [ i \in 1..32 |->
        IF i = 32 THEN h % 256
        ELSE IF i = 31 THEN (h \div 256) % 256
        ELSE IF i = 30 THEN (h \div 65536) % 256
        ELSE IF i = 29 THEN (h \div 16777216) % 256
        ELSE 0 ]

\* tagged_hash("TapBranch", left + right) for left <= right: an injective
\* code of the ordered pair, outside the range of the leaf hashes
TapBranchDigest(lo, hi) == LeafHashSpace + 1 + ((hi * (hi + 1)) \div 2) + lo

tapbranch_hash(left, right) ==
    IF left > right THEN TapBranchDigest(right, left)
    ELSE TapBranchDigest(left, right)

\* one pass of the level loop: pair up neighbours, promote an odd one out
NextLevel(level) ==
    [ k \in 1..((Len(level) + 1) \div 2) |->
        IF 2 * k <= Len(level)
        THEN tapbranch_hash(level[2 * k - 1], level[2 * k])
        ELSE level[2 * k - 1] ]

RECURSIVE MerkleLoop(_)
MerkleLoop(level) ==
    IF Len(level) > 1 THEN MerkleLoop(NextLevel(level)) ELSE level[1]

\* the result of a call that raised ValueError (no hash value is 0)
RAISED == 0

compute_merkle_root(leaf_hashes) ==
    IF leaf_hashes = << >> THEN RAISED ELSE MerkleLoop(leaf_hashes)

RECURSIVE ProofLoop(_, _, _)
ProofLoop(level, leaf_index, proof) ==
    IF Len(level) > 1
    THEN LET step ==
                 IF leaf_index % 2 = 0
                 THEN IF leaf_index + 1 < Len(level)
                      THEN Append(proof, level[leaf_index + 2])
                      ELSE proof
                 ELSE Append(proof, level[leaf_index])
         IN  ProofLoop(NextLevel(level), leaf_index \div 2, step)
    ELSE proof

\* mutant: the sibling of a right child is taken from the wrong side
compute_merkle_proof_wrong_sibling(leaf_hashes, leaf_index) ==
    LET RECURSIVE Loop(_, _, _)
        Loop(level, idx, proof) ==
            IF Len(level) > 1
            THEN LET step ==
                         IF idx % 2 = 0
                         THEN IF idx + 1 < Len(level)
                              THEN Append(proof, level[idx + 2])
                              ELSE proof
                         ELSE Append(proof, level[idx + 1])
                 IN  Loop(NextLevel(level), idx \div 2, step)
            ELSE proof
    IN  Loop(leaf_hashes, leaf_index, << >>)

compute_merkle_proof(leaf_hashes, leaf_index) ==
    IF leaf_index < 0 \/ leaf_index >= Len(leaf_hashes)
    THEN << RAISED >>
    ELSE ProofLoop(leaf_hashes, leaf_index, << >>)

\* mutant: the parity bit is not masked into the version byte, it replaces it
compute_control_block_bad_version(internal_key_bytes, leaf_hashes, leaf_index, is_odd) ==
    << (IF is_odd THEN 1 ELSE 0) >> \o internal_key_bytes
        \o Concat([ i \in 1..Len(compute_merkle_proof(leaf_hashes, leaf_index)) |->
                      Bytes32(compute_merkle_proof(leaf_hashes, leaf_index)[i]) ])

compute_control_block(internal_key_bytes, leaf_hashes, leaf_index, is_odd) ==
    IF Len(internal_key_bytes) # 32 THEN << >>
    ELSE LET proof == compute_merkle_proof(leaf_hashes, leaf_index)
             version_byte == BitOr(BitAnd(LEAF_VERSION, 254), IF is_odd THEN 1 ELSE 0)
         IN  << version_byte >> \o internal_key_bytes
                 \o Concat([ i \in 1..Len(proof) |-> Bytes32(proof[i]) ])

-----------------------------------------------------------------------------
(* tree/program.py: the nested-list compile path *)

\* TaprootProgram._build_balanced_tree: a script, or a two-element list
RECURSIVE _build_balanced_tree(_)
_build_balanced_tree(scripts) ==
    IF Len(scripts) = 1 THEN [ kind |-> "script", script |-> scripts[1] ]
    ELSE IF Len(scripts) = 2
    THEN [ kind |-> "list",
           left |-> [ kind |-> "script", script |-> scripts[1] ],
           right |-> [ kind |-> "script", script |-> scripts[2] ] ]
    ELSE LET mid == Len(scripts) \div 2
         IN  [ kind |-> "list",
               left |-> _build_balanced_tree(SubSeq(scripts, 1, mid)),
               right |-> _build_balanced_tree(SubSeq(scripts, mid + 1, Len(scripts))) ]

\* the Merkle root get_taproot_address(tree) commits to (BIP-341): the
\* tapleaf hash of a script, the tapbranch hash of a two-element list.
\* hash_of[s] is the tapleaf hash of script s.
RECURSIVE TreeMerkleRoot(_, _)
TreeMerkleRoot(tree, hash_of) ==
    IF tree.kind = "script" THEN hash_of[tree.script]
    ELSE tapbranch_hash(TreeMerkleRoot(tree.left, hash_of),
                        TreeMerkleRoot(tree.right, hash_of))

RECURSIVE DepthIn(_, _)
\* number of branch nodes above leaf s in tree, -1 when s is not in it
DepthIn(tree, s) ==
    IF tree.kind = "script" THEN (IF tree.script = s THEN 0 ELSE -1)
    ELSE LET dl == DepthIn(tree.left, s)
             dr == DepthIn(tree.right, s)
         IN  IF dl >= 0 THEN dl + 1 ELSE IF dr >= 0 THEN dr + 1 ELSE -1

-----------------------------------------------------------------------------
(* Scripts (bitcoinutils Script.to_hex and script/script.py RawScript) *)

\* Python's None, for an optional string and for an optional integer
NoneStr == "<None>"
NoneInt == -1

\* hashlib.sha256(preimage.encode('utf-8')): 32 bytes, one code per preimage
sha256(preimage) ==
    Bytes32(CASE preimage = "helloworld" -> 2471 [] preimage = "secret" -> 11171 [] OTHER -> 1)

\* a push of data of at most 75 bytes: length prefix, then the data
PushData(data) == << Len(data) >> \o data

\* an integer in a script: OP_1..OP_16 (0x51..0x60), else a minimal push
ScriptInt(n) ==
    IF n = 0 THEN << 0 >>
    ELSE IF n >= 1 /\ n <= 16 THEN << 80 + n >>
    ELSE IF n <= 127 THEN << 1, n >>
    ELSE << 2, n % 256, n \div 256 >>

\* RawScript(hex).to_bytes() and Script.to_hex() of a custom script
CustomScripts ==
    [ raw_checksig |-> [ is_raw |-> TRUE, bytes |-> << 172 >> ],
      alice_checksig |-> [ is_raw |-> FALSE, bytes |-> PushData(xonly("alice")) \o << 172 >> ] ]

\* the script _compile builds for one leaf, as bytes
CompileScript(script_type, params) ==
    CASE script_type = "HASHLOCK" ->
            << 168 >> \o PushData(params.preimage_hash) \o << 136, 81 >>
      [] script_type = "CHECKSIG" ->
            PushData(params.pubkey) \o << 172 >>
      [] script_type = "MULTISIG" ->
            << 0 >>
            \o Concat([ i \in 1..Len(params.pubkeys) |->
                          PushData(params.pubkeys[i]) \o << 186 >> ])
            \o ScriptInt(params.threshold) \o << 135 >>
      [] script_type = "CSV_TIMELOCK" ->
            ScriptInt(IF params.blocks # NoneInt /\ params.blocks # 0
                      THEN params.blocks ELSE params.sequence_value)
            \o << 178, 117 >> \o PushData(params.pubkey) \o << 172 >>
      [] script_type = "CUSTOM" -> CustomScripts[params.script].bytes

\* the leaves the model's scripts are compiled from; tagged_hash("TapLeaf", .)
\* maps the i-th of them to the hash value i
MultisigKeyLists == << << "alice", "bob" >>, << "alice", "bob", "carol" >> >>

KnownLeaves ==
    << [ script_type |-> "HASHLOCK", params |-> [ preimage_hash |-> sha256("helloworld") ] ],
       [ script_type |-> "CHECKSIG", params |-> [ pubkey |-> xonly("bob") ] ],
       [ script_type |-> "CHECKSIG", params |-> [ pubkey |-> xonly("alice") ] ],
       [ script_type |-> "CSV_TIMELOCK",
         params |-> [ sequence_value |-> 2, blocks |-> 2, timestamp |-> NoneInt,
                      pubkey |-> xonly("bob") ] ],
       [ script_type |-> "CUSTOM", params |-> [ script |-> "raw_checksig" ] ] >>
    \o [ i \in 1..8 |->
           [ script_type |-> "MULTISIG",
             params |-> [ threshold |-> (i - 1) % 4,
                          pubkeys |-> [ j \in 1..Len(MultisigKeyLists[((i - 1) \div 4) + 1]) |->
                                          xonly(MultisigKeyLists[((i - 1) \div 4) + 1][j]) ] ] ] ]

\* compact_size(n), tree/tapmath.py
compact_size(n) ==
    IF n < 253 THEN << n >>
    ELSE << 253, n % 256, n \div 256 >>

\* what tagged_hash("TapLeaf", .) is applied to: version, length, script
TapLeafPayload(script) == << LEAF_VERSION >> \o compact_size(Len(script)) \o script

\* the least element of a non-empty set of naturals
Least(S) == CHOOSE i \in S : \A j \in S : i <= j

\* the payloads of the model's scripts, in the order of KnownLeaves
KnownPayloads ==
    [ i \in DOMAIN KnownLeaves |->
        TapLeafPayload(CompileScript(KnownLeaves[i].script_type, KnownLeaves[i].params)) ]

\* the positions in a table of payloads that hold the given one
PayloadHits(table, payload) == { i \in DOMAIN table : table[i] = payload }

LeastOr(S, default) == IF S = {} THEN default ELSE Least(S)

\* tagged_hash("TapLeaf", payload): collision-free on the model's scripts
TapLeafDigest(payload) == LeastOr(PayloadHits(KnownPayloads, payload), LeafHashSpace)

tapleaf_hash(script) ==
    TapLeafDigest(<< LEAF_VERSION >> \o compact_size(Len(script)) \o script)

-----------------------------------------------------------------------------
(* tree/program.py: TaprootProgram *)

\* the bech32m prefix bitcoinutils uses: key.py calls setup('testnet') once,
\* at import
NetworkHrp == "tb"

\* get_taproot_address: the output key (and so the address) is a function of
\* the internal key and the committed root; root 0 stands for "no script tree"
TaprootAddress(internal_key, root) ==
    [ hrp |-> NetworkHrp, internal |-> internal_key, root |-> root ]

\* addr.is_odd(): the parity of the tweaked output key
OutputKeyIsOdd(addr) == (KeyTag(addr.internal) + addr.root) % 2 = 1

\* the descriptor and script of the i-th raw leaf
LeafScriptOf(leaf_data) == CompileScript(leaf_data.script_type, leaf_data.params)

LeafIsRaw(leaf_data) ==
    leaf_data.script_type = "CUSTOM" /\ CustomScripts[leaf_data.params.script].is_raw

DescriptorOf(leaf_data) ==
    [ label |-> leaf_data.label,
      index |-> leaf_data.index,
      script_type |-> leaf_data.script_type,
      script_hex |-> LeafScriptOf(leaf_data),
      params |-> leaf_data.params,
      tapleaf_hash |-> << >> ]

\* position of the last raw leaf stored under a dict key: the assignment in
\* the compile loop overwrites the earlier entry
LastWithLabel(raw_leaves, l) ==
    CHOOSE i \in 1..Len(raw_leaves) :
        /\ raw_leaves[i].label = l
        /\ \A j \in 1..Len(raw_leaves) : raw_leaves[j].label = l => j <= i

LastWithIndex(raw_leaves, n) ==
    CHOOSE i \in 1..Len(raw_leaves) :
        /\ raw_leaves[i].index = n
        /\ \A j \in 1..Len(raw_leaves) : raw_leaves[j].index = n => j <= i

\* _compile, first loop: the script of every leaf, in insertion order
ProgramScripts(raw_leaves) ==
    [ i \in 1..Len(raw_leaves) |-> LeafScriptOf(raw_leaves[i]) ]

\* has_raw: some leaf carries a RawScript
ProgramHasRaw(raw_leaves) == \E i \in 1..Len(raw_leaves) : LeafIsRaw(raw_leaves[i])

\* tapmath path: the tapleaf hash of every script
ScriptHashes(scripts) == [ i \in 1..Len(scripts) |-> tapleaf_hash(scripts[i]) ]

\* nested path: the balanced tree over the scripts (None when there are none)
ProgramTree(n) ==
    IF n = 0 THEN [ kind |-> "none" ]
    ELSE _build_balanced_tree([ i \in 1..n |-> i ])

\* the root the address commits to; 0 stands for "no script tree"
CommittedRoot(has_raw, leaf_hashes, tree) ==
    IF has_raw THEN compute_merkle_root(leaf_hashes)
    ELSE IF Len(leaf_hashes) = 0 THEN 0
    ELSE TreeMerkleRoot(tree, leaf_hashes)

\* the fields of the program once _compile has run
CompiledProgram(internal_key, raw_leaves, network, scripts, has_raw, leaf_hashes, tree, root) ==
    [ internal_key |-> internal_key,
      network |-> network,
      leaf_descriptors |->
          [ l \in { raw_leaves[i].label : i \in 1..Len(raw_leaves) } |->
              DescriptorOf(raw_leaves[LastWithLabel(raw_leaves, l)]) ],
      leaf_by_index |->
          [ n \in { raw_leaves[i].index : i \in 1..Len(raw_leaves) } |->
              DescriptorOf(raw_leaves[LastWithIndex(raw_leaves, n)]) ],
      scripts |-> scripts,
      use_tapmath |-> has_raw,
      leaf_hashes |-> IF has_raw THEN leaf_hashes ELSE << >>,
      merkle_root |-> IF has_raw THEN root ELSE 0,
      tree |-> IF has_raw THEN [ kind |-> "none" ] ELSE tree,
      address |-> TaprootAddress(internal_key, root) ]

CompileHashed(internal_key, raw_leaves, network, scripts, has_raw, leaf_hashes, tree) ==
    CompiledProgram(internal_key, raw_leaves, network, scripts, has_raw, leaf_hashes,
                    tree, CommittedRoot(has_raw, leaf_hashes, tree))

CompileScripts(internal_key, raw_leaves, network, scripts, has_raw) ==
    CompileHashed(internal_key, raw_leaves, network, scripts, has_raw,
                  ScriptHashes(scripts), ProgramTree(Len(scripts)))

\* TaprootProgram.__init__ / _compile
CompileProgram(internal_key, raw_leaves, network) ==
    CompileScripts(internal_key, raw_leaves, network,
                   ProgramScripts(raw_leaves), ProgramHasRaw(raw_leaves))

\* the labels of descriptors todo, by ascending index
RECURSIVE LabelsByIndex(_, _)
LabelsByIndex(descriptors, todo) ==
    IF todo = { } THEN << >>
    ELSE LET l == CHOOSE l \in todo :
                    \A m \in todo : descriptors[l].index <= descriptors[m].index
         IN  << l >> \o LabelsByIndex(descriptors, todo \ { l })

\* TaprootProgram.leaves
TaprootProgram_leaves(self) ==
    LabelsByIndex(self.leaf_descriptors, DOMAIN self.leaf_descriptors)

\* TaprootProgram.num_leaves
num_leaves(self) == Cardinality(DOMAIN self.leaf_descriptors)

\* TaprootProgram.leaf(label_or_index)
TaprootProgram_leaf(self, label_or_index, is_int) ==
    IF is_int
    THEN IF label_or_index \notin DOMAIN self.leaf_by_index
         THEN [ status |-> "KeyError" ]
         ELSE [ status |-> "leaf", descriptor |-> self.leaf_by_index[label_or_index] ]
    ELSE IF label_or_index \notin DOMAIN self.leaf_descriptors
         THEN [ status |-> "KeyError" ]
         ELSE [ status |-> "leaf", descriptor |-> self.leaf_descriptors[label_or_index] ]

-----------------------------------------------------------------------------
(* Byte strings and integers on the wire *)

\* Optional values: Python's None is the empty tuple, a value v is << v >>
None == << >>

Some(v) == << v >>

\* n as w little-endian bytes (struct.pack('<I'/'<q'), int.to_bytes)
RECURSIVE LE(_, _)
LE(n, w) == IF w = 0 THEN << >> ELSE << n % 256 >> \o LE(n \div 256, w - 1)

\* the integer a little-endian byte string holds (struct.unpack_from)
RECURSIVE DecLE(_)
DecLE(bytes) ==
    IF bytes = << >> THEN 0 ELSE Head(bytes) + 256 * DecLE(Tail(bytes))

\* an unsigned 32-bit Python integer, kept as two 16-bit halves
U32(hi, lo) == [ hi |-> hi, lo |-> lo ]

\* struct.pack('<I', value)
pack_I(value) == LE(value.lo, 2) \o LE(value.hi, 2)

\* the integer four little-endian bytes hold
unpack_I(bytes) == U32(DecLE(SubSeq(bytes, 3, 4)), DecLE(SubSeq(bytes, 1, 2)))

\* s.encode('utf-8')
Utf8(s) ==
    CASE s = "helloworld" -> << 104, 101, 108, 108, 111, 119, 111, 114, 108, 100 >>
      [] OTHER -> << 63 >>

-----------------------------------------------------------------------------
(* bitcoinutils transactions, as spend/builder.py and psbt.py use them *)

\* the nSequence a TxInput has when none is given (bitcoinutils
\* DEFAULT_TX_SEQUENCE, 0xffffffff)
DEFAULT_TX_SEQUENCE == << 255, 255, 255, 255 >>

\* TxInput(txid, vout, sequence=...)
TxInput(txid, vout, sequence) ==
    [ txid |-> txid, txout_index |-> vout, script_sig |-> << >>, sequence |-> sequence ]

\* TxOutput(amount, script_pubkey)
TxOutput(amount, script_pubkey) == [ amount |-> amount, script_pubkey |-> script_pubkey ]

\* Transaction(txins, txouts, has_segwit=...): version 2, locktime 0, no witness
BUTransaction(txins, txouts, has_segwit) ==
    [ version |-> LE(2, 4),
      inputs |-> txins,
      outputs |-> txouts,
      locktime |-> LE(0, 4),
      has_segwit |-> has_segwit,
      witnesses |-> << >> ]

\* Sequence(TYPE_RELATIVE_TIMELOCK, value).for_input_sequence(): a block count
for_input_sequence(value) == LE(value, 4)

\* tx.to_bytes(False): the serialization without marker, flag and witnesses
to_bytes_no_witness(tx) ==
    tx.version
    \o compact_size(Len(tx.inputs))
    \o Concat([ i \in 1..Len(tx.inputs) |->
                  Reverse(tx.inputs[i].txid)
                  \o LE(tx.inputs[i].txout_index, 4)
                  \o compact_size(Len(tx.inputs[i].script_sig)) \o tx.inputs[i].script_sig
                  \o tx.inputs[i].sequence ])
    \o compact_size(Len(tx.outputs))
    \o Concat([ i \in 1..Len(tx.outputs) |->
                  LE(tx.outputs[i].amount, 8)
                  \o compact_size(Len(tx.outputs[i].script_pubkey))
                  \o tx.outputs[i].script_pubkey ])
    \o tx.locktime

\* tx.get_txid(): the hash of the serialization without witnesses
get_txid(tx) == to_bytes_no_witness(tx)

\* Transaction.from_raw: the inputs, n of them, read from offset off (0-based)
RECURSIVE ParseTxInputs(_, _, _)
ParseTxInputs(raw, off, n) ==
    IF n = 0 THEN [ items |-> << >>, off |-> off ]
    ELSE LET slen == raw[off + 37]
             item == [ txid |-> Reverse(SubSeq(raw, off + 1, off + 32)),
                       txout_index |-> DecLE(SubSeq(raw, off + 33, off + 36)),
                       script_sig |-> SubSeq(raw, off + 38, off + 37 + slen),
                       sequence |-> SubSeq(raw, off + 38 + slen, off + 41 + slen) ]
             rest == ParseTxInputs(raw, off + 41 + slen, n - 1)
         IN  [ items |-> << item >> \o rest.items, off |-> rest.off ]

RECURSIVE ParseTxOutputs(_, _, _)
ParseTxOutputs(raw, off, n) ==
    IF n = 0 THEN [ items |-> << >>, off |-> off ]
    ELSE LET slen == raw[off + 9]
             item == [ amount |-> DecLE(SubSeq(raw, off + 1, off + 8)),
                       script_pubkey |-> SubSeq(raw, off + 10, off + 9 + slen) ]
             rest == ParseTxOutputs(raw, off + 9 + slen, n - 1)
         IN  [ items |-> << item >> \o rest.items, off |-> rest.off ]

\* Transaction.from_raw(hex) of a serialization without witnesses: the parsed
\* transaction is not a segwit one and has no witness list
from_raw(raw) ==
    LET ins == ParseTxInputs(raw, 5, raw[5])
        outs == ParseTxOutputs(raw, ins.off + 1, raw[ins.off + 1])
    IN  [ version |-> SubSeq(raw, 1, 4),
          inputs |-> ins.items,
          outputs |-> outs.items,
          locktime |-> SubSeq(raw, outs.off + 1, outs.off + 4),
          has_segwit |-> FALSE,
          witnesses |-> << >> ]

\* the fields of a spend BIP-341 commits a signature to, one short code per
\* field: a collision-free digest of the signature message
SigHashDigest(tx, txin_index, script_pub_keys, amounts, ext_flag, leaf_hash) ==
    tx.version \o tx.locktime
    \o Concat([ i \in 1..Len(tx.inputs) |->
                  << tx.inputs[i].txid[1], tx.inputs[i].txout_index >>
                  \o tx.inputs[i].sequence ])
    \o Concat([ i \in 1..Len(amounts) |-> LE(amounts[i], 2) ])
    \o Concat([ i \in 1..Len(script_pub_keys) |->
                  << script_pub_keys[i][3] >> \o SubSeq(script_pub_keys[i], 32, 34) ])
    \o Concat([ i \in 1..Len(tx.outputs) |->
                  LE(tx.outputs[i].amount, 2)
                  \o << tx.outputs[i].script_pubkey[3] >>
                  \o SubSeq(tx.outputs[i].script_pubkey, 32, 34) ])
    \o << ext_flag, txin_index >>
    \o (IF ext_flag = 1 THEN << leaf_hash >> ELSE << >>)

\* key._internal.sign_taproot_input(...): a deterministic Schnorr signature,
\* a function of the signing key, of the tweak applied to it (none for
\* tweak=False, else the TapTweak of the root the scripts argument commits
\* to, 0 for no scripts) and of the message
sign_taproot_input(key, tx, txin_index, script_pub_keys, amounts, script_path, leaf_hash, tweak, tweak_root) ==
    << KeyTag(key) >>
    \o LE(IF tweak THEN tweak_root + 1 ELSE 0, 3)
    \o SigHashDigest(tx, txin_index, script_pub_keys, amounts,
                     IF script_path THEN 1 ELSE 0, leaf_hash)

-----------------------------------------------------------------------------
(* tree/program.py: what a spend reads from a TaprootProgram *)

\* the x-only output key of an address: a code of (internal key, root)
OutputKeyBytes(addr) ==
    << KeyTag(addr.internal), 1 >> \o SubSeq(Bytes32(addr.root), 3, 32)

\* addr.to_script_pub_key().to_bytes(): OP_1 <32-byte output key>
to_script_pub_key(addr) == << 81, 32 >> \o OutputKeyBytes(addr)

\* the root the program's address commits to, 0 without a tree
ProgramRoot(program) == program.address.root

\* the Merkle path bitcoinutils' ControlBlock takes from the nested list
RECURSIVE TreePath(_, _, _)
TreePath(tree, hash_of, s) ==
    IF tree.kind = "script" THEN << >>
    ELSE IF DepthIn(tree.left, s) >= 0
    THEN Append(TreePath(tree.left, hash_of, s), TreeMerkleRoot(tree.right, hash_of))
    ELSE Append(TreePath(tree.right, hash_of, s), TreeMerkleRoot(tree.left, hash_of))

\* TaprootProgram.control_block(index), for the index of an existing leaf
control_block(program, index) ==
    LET is_odd == OutputKeyIsOdd(program.address)
    IN  IF program.use_tapmath
        THEN compute_control_block(xonly(program.internal_key), program.leaf_hashes,
                                   index, is_odd)
        ELSE LET hash_of == [ i \in 1..Len(program.scripts) |->
                                tapleaf_hash(program.scripts[i]) ]
                 path == TreePath(program.tree, hash_of, index + 1)
             IN  << BitOr(LEAF_VERSION, IF is_odd THEN 1 ELSE 0) >>
                 \o xonly(program.internal_key)
                 \o Concat([ i \in 1..Len(path) |-> Bytes32(path[i]) ])

\* TaprootProgram.merkle_root_bytes(): the 32-byte root, None for a program
\* without leaves
merkle_root_bytes(program) ==
    IF Len(program.scripts) = 0 THEN None ELSE Some(Bytes32(ProgramRoot(program)))

\* what key-path signing passes as tapleaf_scripts: program._merkle_root on
\* the tapmath path, else program._tree (None without leaves)
scripts_for_tweak(program) ==
    IF program.use_tapmath THEN Some(program.merkle_root)
    ELSE IF program.tree.kind = "none" THEN None
    ELSE Some(ProgramRoot(program))

\* the root bitcoinutils tweaks the key with for a tapleaf_scripts argument:
\* none (0) for None or an empty list
TweakRootOf(scripts) == IF scripts = None THEN 0 ELSE scripts[1]

\* one raw leaf, as the TapTree methods append it
RawLeaf(label, index, script_type, params) ==
    [ label |-> label, index |-> index, script_type |-> script_type, params |-> params ]

\* the programs spends are built from
ProgramLeaves ==
    [ tree4 |->
        << RawLeaf("hash", 0, "HASHLOCK", [ preimage_hash |-> sha256("helloworld") ]),
           RawLeaf("2of2", 1, "MULTISIG",
                   [ threshold |-> 2, pubkeys |-> << xonly("alice"), xonly("bob") >> ]),
           RawLeaf("csv", 2, "CSV_TIMELOCK",
                   [ sequence_value |-> 2, blocks |-> 2, timestamp |-> NoneInt,
                     pubkey |-> xonly("bob") ]),
           RawLeaf("bobsig", 3, "CHECKSIG", [ pubkey |-> xonly("bob") ]) >>,
      keyonly |-> << >>,
      raw2 |->
        << RawLeaf("raw", 0, "CUSTOM", [ script |-> "raw_checksig" ]),
           RawLeaf("2of3", 1, "MULTISIG",
                   [ threshold |-> 2,
                     pubkeys |-> << xonly("alice"), xonly("bob"), xonly("carol") >> ]) >> ]

Programs ==
    [ name \in DOMAIN ProgramLeaves |-> CompileProgram("alice", ProgramLeaves[name], "testnet") ]

\* program.leaf(label) of a spend builder
LeafOf(spend) == Programs[spend.program].leaf_descriptors[spend.leaf[1]]

-----------------------------------------------------------------------------
(* spend/builder.py: SpendBuilder *)

\* SpendBuilder(program, leaf, is_keypath), as program.spend(label) and
\* program.keypath() construct it
NewSpendBuilder(program, leaf, is_keypath) ==
    [ program |-> program,
      leaf |-> leaf,
      is_keypath |-> is_keypath,
      utxos |-> << >>,
      outputs |-> << >>,
      preimage |-> None,
      signatures |-> << >>,
      custom_witness |-> None,
      sequence |-> None ]

\* the nSequence of a script-path input that is neither overridden nor a
\* timelock: 0xfffffffd
RBF_SEQUENCE == U32(65535, 65533)

\* the outputs every build path creates: TxOutput(sats, script of the address)
TxOuts(spend) ==
    [ i \in 1..Len(spend.outputs) |->
        TxOutput(spend.outputs[i][2], to_script_pub_key(spend.outputs[i][1])) ]

\* the inputs _build_unsigned_tx creates
UnsignedTxIns(spend) ==
    [ i \in 1..Len(spend.utxos) |->
        LET txid == spend.utxos[i][1]
            vout == spend.utxos[i][2]
        IN  IF spend.is_keypath
            THEN IF spend.sequence # None
                 THEN TxInput(txid, vout, pack_I(spend.sequence[1]))
                 ELSE TxInput(txid, vout, DEFAULT_TX_SEQUENCE)
            ELSE IF spend.sequence # None
                 THEN TxInput(txid, vout, pack_I(spend.sequence[1]))
                 ELSE IF LeafOf(spend).script_type = "CSV_TIMELOCK"
                 THEN TxInput(txid, vout,
                              for_input_sequence(LeafOf(spend).params.sequence_value))
                 ELSE TxInput(txid, vout, pack_I(RBF_SEQUENCE)) ]

\* a _build_unsigned_tx that forgets the sequence() override
_build_unsigned_tx_no_override(spend) ==
    BUTransaction(UnsignedTxIns([ spend EXCEPT !.sequence = None ]), TxOuts(spend), TRUE)

_build_unsigned_tx(spend) == BUTransaction(UnsignedTxIns(spend), TxOuts(spend), TRUE)

\* the inputs _build_keypath creates
KeypathTxIns(spend) ==
    [ i \in 1..Len(spend.utxos) |->
        IF spend.sequence # None
        THEN TxInput(spend.utxos[i][1], spend.utxos[i][2], pack_I(spend.sequence[1]))
        ELSE TxInput(spend.utxos[i][1], spend.utxos[i][2], DEFAULT_TX_SEQUENCE) ]

\* the inputs _build_script_path creates
ScriptPathTxIns(spend) ==
    [ i \in 1..Len(spend.utxos) |->
        IF spend.sequence # None
        THEN TxInput(spend.utxos[i][1], spend.utxos[i][2], pack_I(spend.sequence[1]))
        ELSE IF LeafOf(spend).script_type = "CSV_TIMELOCK"
        THEN TxInput(spend.utxos[i][1], spend.utxos[i][2],
                     for_input_sequence(LeafOf(spend).params.sequence_value))
        ELSE TxInput(spend.utxos[i][1], spend.utxos[i][2], pack_I(RBF_SEQUENCE)) ]

\* what build() returns or raises
BuildError(message) == [ status |-> "BuildError", message |-> message ]

Transaction(bu_tx, total_sats) ==
    [ status |-> "Transaction", tx |-> bu_tx, input_sats |-> total_sats ]

RECURSIVE SumSats(_)
SumSats(utxos) == IF utxos = << >> THEN 0 ELSE Head(utxos)[3] + SumSats(Tail(utxos))

\* the spent output's script and amount, once per input
SpentScripts(spend) ==
    [ i \in 1..Len(spend.utxos) |-> to_script_pub_key(Programs[spend.program].address) ]

SpentAmounts(spend) == [ i \in 1..Len(spend.utxos) |-> spend.utxos[i][3] ]

_build_keypath(spend) ==
    LET tx == BUTransaction(KeypathTxIns(spend), TxOuts(spend), TRUE)
        tweak_root == TweakRootOf(scripts_for_tweak(Programs[spend.program]))
    IN  IF spend.signatures = << >>
        THEN BuildError("Key-path spending requires .sign(internal_key)")
        ELSE Transaction(
               [ tx EXCEPT !.witnesses =
                   [ i \in 1..Len(spend.utxos) |->
                       << sign_taproot_input(spend.signatures[1], tx, i - 1,
                                             SpentScripts(spend), SpentAmounts(spend),
                                             FALSE, 0, TRUE, tweak_root) >> ] ],
               SumSats(spend.utxos))

\* the MULTISIG branch: the signatures, keyed by x-only pubkey (a later key
\* with the same pubkey replaces the earlier one), read in reversed pubkey order
MultisigWitness(spend, tx, input_idx, leaf_hash) ==
    LET pubkeys == LeafOf(spend).params.pubkeys
        signing == { j \in 1..Len(spend.signatures) :
                       \A m \in 1..Len(spend.signatures) :
                           spend.signatures[m] = spend.signatures[j] => m <= j }
        SigOf(pk) ==
            LET j == CHOOSE j \in signing : xonly(spend.signatures[j]) = pk
            IN  sign_taproot_input(spend.signatures[j], tx, input_idx,
                                   SpentScripts(spend), SpentAmounts(spend),
                                   TRUE, leaf_hash, FALSE, 0)
        rev == Reverse(pubkeys)
    IN  Concat([ i \in 1..Len(rev) |->
                   IF \E j \in signing : xonly(spend.signatures[j]) = rev[i]
                   THEN << SigOf(rev[i]) >> ELSE << >> ])

\* UnlockItems without the preimage check of the HASHLOCK branch
UnlockItems_no_preimage_check(spend, tx, input_idx) ==
    LET leaf == LeafOf(spend)
        script == Programs[spend.program].scripts[leaf.index + 1]
        leaf_hash == tapleaf_hash(script)
        first_sig == sign_taproot_input(spend.signatures[1], tx, input_idx,
                                        SpentScripts(spend), SpentAmounts(spend),
                                        TRUE, leaf_hash, FALSE, 0)
    IN  CASE leaf.script_type = "HASHLOCK" ->
                IF spend.preimage = None THEN Some(<< >>)
                ELSE Some(<< Utf8(spend.preimage[1]) >>)
          [] leaf.script_type = "CHECKSIG" ->
                IF spend.signatures = << >> THEN None ELSE Some(<< first_sig >>)
          [] leaf.script_type = "MULTISIG" ->
                IF Len(spend.signatures) < leaf.params.threshold THEN None
                ELSE Some(MultisigWitness(spend, tx, input_idx, leaf_hash))
          [] leaf.script_type = "CSV_TIMELOCK" ->
                IF spend.signatures = << >> THEN None ELSE Some(<< first_sig >>)
          [] leaf.script_type = "CUSTOM" ->
                IF spend.custom_witness = None THEN None
                ELSE Some(spend.custom_witness[1])

\* the unlock items of one input, None when the material for them is missing
UnlockItems(spend, tx, input_idx) ==
    LET leaf == LeafOf(spend)
        script == Programs[spend.program].scripts[leaf.index + 1]
        leaf_hash == tapleaf_hash(script)
        first_sig == sign_taproot_input(spend.signatures[1], tx, input_idx,
                                        SpentScripts(spend), SpentAmounts(spend),
                                        TRUE, leaf_hash, FALSE, 0)
    IN  CASE leaf.script_type = "HASHLOCK" ->
                IF spend.preimage = None THEN None
                ELSE Some(<< Utf8(spend.preimage[1]) >>)
          [] leaf.script_type = "CHECKSIG" ->
                IF spend.signatures = << >> THEN None ELSE Some(<< first_sig >>)
          [] leaf.script_type = "MULTISIG" ->
                IF Len(spend.signatures) < leaf.params.threshold THEN None
                ELSE Some(MultisigWitness(spend, tx, input_idx, leaf_hash))
          [] leaf.script_type = "CSV_TIMELOCK" ->
                IF spend.signatures = << >> THEN None ELSE Some(<< first_sig >>)
          [] leaf.script_type = "CUSTOM" ->
                IF spend.custom_witness = None THEN None
                ELSE Some(spend.custom_witness[1])

_build_script_path(spend) ==
    LET leaf == LeafOf(spend)
        tx == BUTransaction(ScriptPathTxIns(spend), TxOuts(spend), TRUE)
        script == Programs[spend.program].scripts[leaf.index + 1]
        cb == control_block(Programs[spend.program], leaf.index)
    IN  IF UnlockItems(spend, tx, 0) = None
        THEN BuildError(leaf.script_type)
        ELSE Transaction(
               [ tx EXCEPT !.witnesses =
                   [ i \in 1..Len(spend.utxos) |->
                       UnlockItems(spend, tx, i - 1)[1] \o << script, cb >> ] ],
               SumSats(spend.utxos))

RECURSIVE SumAmounts(_)
SumAmounts(outputs) ==
    IF outputs = << >> THEN 0 ELSE Head(outputs).amount + SumAmounts(Tail(outputs))

\* Transaction.fee
fee(self) == self.input_sats - SumAmounts(self.tx.outputs)

\* SpendBuilder.build()
SpendBuilder_build(spend) ==
    IF spend.utxos = << >> THEN BuildError("No UTXO specified")
    ELSE IF spend.outputs = << >> THEN BuildError("No outputs specified")
    ELSE IF spend.is_keypath THEN _build_keypath(spend)
    ELSE _build_script_path(spend)

-----------------------------------------------------------------------------
(* psbt.py: the PSBT object *)

PSBT_GLOBAL_UNSIGNED_TX == 0
PSBT_IN_WITNESS_UTXO == 1
PSBT_IN_FINAL_SCRIPTWITNESS == 8
PSBT_IN_TAP_KEY_SIG == 19
PSBT_IN_TAP_SCRIPT_SIG == 20
PSBT_IN_TAP_LEAF_SCRIPT == 21
PSBT_IN_TAP_INTERNAL_KEY == 23
PSBT_IN_TAP_MERKLE_ROOT == 24

\* b"psbt\xff"
PSBT_MAGIC == << 112, 115, 98, 116, 255 >>

\* PsbtInput(): the attribute _tapleaf_scripts_for_tweak exists only once
\* to_psbt has set it (has = TRUE)
PsbtInput ==
    [ witness_utxo |-> None,
      tap_internal_key |-> None,
      tap_merkle_root |-> None,
      tap_leaf_script |-> None,
      tap_key_sig |-> None,
      tap_script_sigs |-> << >>,
      final_script_witness |-> None,
      _tapleaf_script_obj |-> None,
      _tapleaf_scripts_for_tweak |-> [ has |-> FALSE, value |-> None ] ]

\* Psbt(tx)
Psbt(tx) == [ exists |-> TRUE, tx |-> tx, inputs |-> [ i \in 1..Len(tx.inputs) |-> PsbtInput ] ]

\* no Psbt object has been created
NoPsbt == [ exists |-> FALSE ]

\* SpendBuilder.to_psbt(), for a builder with UTXOs and outputs
to_psbt(spend) ==
    LET program == Programs[spend.program]
        self == Psbt(_build_unsigned_tx(spend))
        spk_bytes == to_script_pub_key(program.address)
    IN  [ self EXCEPT !.inputs =
            [ i \in 1..Len(spend.utxos) |->
                LET inp == [ PsbtInput EXCEPT
                               !.witness_utxo = Some(<< spend.utxos[i][3], spk_bytes >>),
                               !.tap_internal_key = Some(xonly(program.internal_key)),
                               !.tap_merkle_root = merkle_root_bytes(program) ]
                IN  IF spend.is_keypath
                    THEN [ inp EXCEPT !._tapleaf_scripts_for_tweak =
                             [ has |-> TRUE, value |-> scripts_for_tweak(program) ] ]
                    ELSE [ inp EXCEPT
                             !.tap_leaf_script =
                                 Some(<< program.scripts[LeafOf(spend).index + 1],
                                         control_block(program, LeafOf(spend).index) >>),
                             !._tapleaf_script_obj =
                                 Some(program.scripts[LeafOf(spend).index + 1]) ] ] ]

\* a dict assignment that never finds the key: it always adds an entry
DictSet_always_append(d, key, value) == Append(d, [ key |-> key, value |-> value ])

\* d[key] = value on a dict that keeps insertion order
DictSet(d, key, value) ==
    IF \E i \in 1..Len(d) : d[i].key = key
    THEN [ i \in 1..Len(d) |-> IF d[i].key = key THEN [ key |-> key, value |-> value ] ELSE d[i] ]
    ELSE Append(d, [ key |-> key, value |-> value ])

\* sign_with, the amounts and scripts of all inputs' witness UTXOs
WitnessUtxoScripts(self) == [ i \in 1..Len(self.inputs) |-> self.inputs[i].witness_utxo[1][2] ]

WitnessUtxoAmounts(self) == [ i \in 1..Len(self.inputs) |-> self.inputs[i].witness_utxo[1][1] ]

\* sign_with, script-path branch: the leaf the signature commits to is the
\* Script object to_psbt left on the input, else the script bytes parsed back
TapleafToSign(psbtin) ==
    IF psbtin._tapleaf_script_obj # None THEN psbtin._tapleaf_script_obj[1]
    ELSE psbtin.tap_leaf_script[1][1]

\* sign_with, key-path branch: getattr(psbtin, '_tapleaf_scripts_for_tweak', None) or []
TweakScriptsOf(psbtin) ==
    IF psbtin._tapleaf_scripts_for_tweak.has THEN psbtin._tapleaf_scripts_for_tweak.value
    ELSE None

\* sign_with: input psbtin once the signature of key for input_index is stored
SignedInput(self, psbtin, key, input_index) ==
    IF psbtin.tap_leaf_script # None
    THEN [ psbtin EXCEPT !.tap_script_sigs =
             DictSet(@, << xonly(key), Bytes32(tapleaf_hash(psbtin.tap_leaf_script[1][1])) >>,
                     sign_taproot_input(key, self.tx, input_index, WitnessUtxoScripts(self),
                                        WitnessUtxoAmounts(self), TRUE,
                                        tapleaf_hash(TapleafToSign(psbtin)), FALSE, 0)) ]
    ELSE [ psbtin EXCEPT !.tap_key_sig =
             Some(sign_taproot_input(key, self.tx, input_index, WitnessUtxoScripts(self),
                                     WitnessUtxoAmounts(self), FALSE, 0, TRUE,
                                     TweakRootOf(TweakScriptsOf(psbtin)))) ]

\* sign_with: how the call ends.  The check at the top raises ValueError; the
\* loop over all inputs unpacks each witness UTXO and raises TypeError on None
SignOutcome(self, input_index) ==
    IF self.inputs[input_index + 1].witness_utxo = None THEN "ValueError"
    ELSE IF \E i \in 1..Len(self.inputs) : self.inputs[i].witness_utxo = None THEN "TypeError"
    ELSE "ok"

\* a sign_with that stores the signature through the loop variable, which is
\* left on the last input
sign_with_loop_variable(self, key, input_index) ==
    IF SignOutcome(self, input_index) # "ok"
    THEN [ psbt |-> self, outcome |-> SignOutcome(self, input_index) ]
    ELSE [ psbt |-> [ self EXCEPT !.inputs[Len(self.inputs)] =
                        SignedInput(self, self.inputs[Len(self.inputs)], key, input_index) ],
           outcome |-> "ok" ]

\* Psbt.sign_with(key, input_index), for 0 <= input_index < len(inputs):
\* the Psbt after the call and how the call ended
sign_with(self, key, input_index) ==
    IF SignOutcome(self, input_index) # "ok"
    THEN [ psbt |-> self, outcome |-> SignOutcome(self, input_index) ]
    ELSE [ psbt |-> [ self EXCEPT !.inputs[input_index + 1] =
                        SignedInput(self, self.inputs[input_index + 1], key, input_index) ],
           outcome |-> "ok" ]

\* _tapscript_pubkey_order(script_bytes), from offset i (0-based)
RECURSIVE PubkeyOrderFrom(_, _)
PubkeyOrderFrom(script_bytes, i) ==
    LET n == Len(script_bytes)
        b == script_bytes[i + 1]
    IN  IF i >= n THEN << >>
        ELSE IF b = 32 /\ i + 33 <= n
        THEN << SubSeq(script_bytes, i + 2, i + 33) >> \o PubkeyOrderFrom(script_bytes, i + 33)
        ELSE IF b <= 75 THEN PubkeyOrderFrom(script_bytes, i + 1 + b)
        ELSE IF b = 76
        THEN IF i + 2 <= n
             THEN LET len == script_bytes[i + 2]
                  IN  (IF len = 32 /\ i + 34 <= n
                       THEN << SubSeq(script_bytes, i + 3, i + 34) >> ELSE << >>)
                      \o PubkeyOrderFrom(script_bytes, i + 2 + len)
             ELSE PubkeyOrderFrom(script_bytes, i + 1)
        ELSE IF b = 77
        THEN IF i + 3 <= n
             THEN LET len == script_bytes[i + 2] + 256 * script_bytes[i + 3]
                  IN  (IF len = 32 /\ i + 35 <= n
                       THEN << SubSeq(script_bytes, i + 4, i + 35) >> ELSE << >>)
                      \o PubkeyOrderFrom(script_bytes, i + 3 + len)
             ELSE PubkeyOrderFrom(script_bytes, i + 1)
        ELSE PubkeyOrderFrom(script_bytes, i + 1)

_tapscript_pubkey_order(script_bytes) == PubkeyOrderFrom(script_bytes, 0)

\* a finalize() that reads the signatures in the order they were stored
FinalScriptWitness_insertion_order(inp) ==
    [ i \in 1..Len(inp.tap_script_sigs) |-> inp.tap_script_sigs[i].value ]
    \o << inp.tap_leaf_script[1][1], inp.tap_leaf_script[1][2] >>

\* FinalScriptWitness with the control block before the script
FinalScriptWitness_script_last(inp) ==
    LET script_bytes == inp.tap_leaf_script[1][1]
        control_block_bytes == inp.tap_leaf_script[1][2]
        leaf_hash == Bytes32(tapleaf_hash(script_bytes))
        sigs_by_pk == SelectSeq(inp.tap_script_sigs, LAMBDA e : e.key[2] = leaf_hash)
        rev == Reverse(_tapscript_pubkey_order(script_bytes))
        sigs == IF rev # << >>
                THEN Concat([ i \in 1..Len(rev) |->
                                LET hit == SelectSeq(sigs_by_pk, LAMBDA e : e.key[1] = rev[i])
                                IN  IF hit = << >> THEN << >> ELSE << hit[1].value >> ])
                ELSE [ i \in 1..Len(sigs_by_pk) |-> sigs_by_pk[i].value ]
    IN  sigs \o << control_block_bytes, script_bytes >>

\* the script-path witness finalize() builds for one input
FinalScriptWitness(inp) ==
    LET script_bytes == inp.tap_leaf_script[1][1]
        control_block_bytes == inp.tap_leaf_script[1][2]
        leaf_hash == Bytes32(tapleaf_hash(script_bytes))
        sigs_by_pk == SelectSeq(inp.tap_script_sigs, LAMBDA e : e.key[2] = leaf_hash)
        rev == Reverse(_tapscript_pubkey_order(script_bytes))
        sigs == IF rev # << >>
                THEN Concat([ i \in 1..Len(rev) |->
                                LET hit == SelectSeq(sigs_by_pk, LAMBDA e : e.key[1] = rev[i])
                                IN  IF hit = << >> THEN << >> ELSE << hit[1].value >> ])
                ELSE [ i \in 1..Len(sigs_by_pk) |-> sigs_by_pk[i].value ]
    IN  sigs \o << script_bytes, control_block_bytes >>

\* the loop of finalize(), from input i (0-based): it stops at the first
\* input it cannot finalize and keeps what it did before
RECURSIVE FinalizeFrom(_, _)
FinalizeFrom(self, i) ==
    IF i >= Len(self.inputs) THEN [ psbt |-> self, outcome |-> "ok" ]
    ELSE LET inp == self.inputs[i + 1]
         IN  IF inp.tap_key_sig # None /\ inp.tap_key_sig[1] # << >>
             THEN FinalizeFrom([ self EXCEPT !.tx.witnesses[i + 1] = << inp.tap_key_sig[1] >> ],
                               i + 1)
             ELSE IF inp.tap_leaf_script # None /\ inp.tap_script_sigs # << >>
             THEN FinalizeFrom(
                    [ self EXCEPT !.tx.witnesses[i + 1] = FinalScriptWitness(inp),
                                  !.inputs[i + 1].final_script_witness =
                                      Some(FinalScriptWitness(inp)) ],
                    i + 1)
             ELSE [ psbt |-> self, outcome |-> "ValueError" ]

\* a finalize that sets no witness unless every input can be finalized
finalize_all_or_nothing(self) ==
    IF FinalizeFrom(self, 0).outcome = "ok"
    THEN FinalizeFrom(
           [ self EXCEPT !.tx.witnesses =
               [ i \in 1..Len(self.tx.inputs) |->
                   IF i <= Len(self.tx.witnesses) THEN self.tx.witnesses[i] ELSE << >> ] ],
           0)
    ELSE [ psbt |-> self, outcome |-> "ValueError" ]

\* the witness of input i (0-based) of a transaction; none is the empty one
WitnessOf(tx, i) == IF i < Len(tx.witnesses) THEN tx.witnesses[i + 1] ELSE << >>

\* an earlier finalize() stopped part-way: some inputs have their witness,
\* others have none
PartlyFinalized(self) ==
    \E i, k \in 0..(Len(self.inputs) - 1) :
       WitnessOf(self.tx, i) # << >> /\ WitnessOf(self.tx, k) = << >>

\* Psbt.finalize(): pad the witness list to one (empty) witness per input,
\* then the loop
finalize(self) ==
    FinalizeFrom(
      [ self EXCEPT !.tx.witnesses =
          [ i \in 1..Len(self.tx.inputs) |->
              IF i <= Len(self.tx.witnesses) THEN self.tx.witnesses[i] ELSE << >> ] ],
      0)

\* Psbt.extract_transaction()
extract_transaction(self) == self.tx

-----------------------------------------------------------------------------
(* psbt.py: serialization.  base64 itself is a bijection between byte       *)
(* strings and text; the model keeps the byte string it encodes.            *)

\* data[a:b] of Python: 0-based, end exclusive, clipped to the data
Slice(data, a, b) ==
    LET e == IF b < Len(data) THEN b ELSE Len(data)
    IN  IF a >= e THEN << >> ELSE SubSeq(data, a + 1, e)

_encode_varint(n) ==
    IF n < 253 THEN << n >>
    ELSE IF n <= 65535 THEN << 253 >> \o LE(n, 2)
    ELSE << 254 >> \o LE(n, 4)

\* an exception of the parsers: "" is none
NoError == ""

\* lengths from here on all lie beyond the end of any data of the model, so
\* that slices and offsets clip alike for each of them
MaxLength == 4194304

\* the integer a little-endian byte string holds, or MaxLength if it is more
RECURSIVE DecLength(_)
DecLength(bytes) ==
    IF bytes = << >> THEN 0
    ELSE IF DecLength(Tail(bytes)) >= MaxLength \div 256 THEN MaxLength
    ELSE Head(bytes) + 256 * DecLength(Tail(bytes))

\* a compact size of 1 + w bytes: struct.unpack_from raises struct.error
\* unless the data holds the w bytes
WideVarint(data, offset, w) ==
    IF offset + 1 + w <= Len(data)
    THEN [ value |-> DecLength(Slice(data, offset + 1, offset + 1 + w)), n |-> w + 1,
           err |-> NoError ]
    ELSE [ value |-> 0, n |-> 0, err |-> "struct.error" ]

\* the compact size whose first byte is b
VarintAt(data, offset, b) ==
    IF b < 253 THEN [ value |-> b, n |-> 1, err |-> NoError ]
    ELSE WideVarint(data, offset, IF b = 253 THEN 2 ELSE IF b = 254 THEN 4 ELSE 8)

\* _decode_varint(data, offset): the value and the number of bytes consumed
_decode_varint(data, offset) ==
    IF offset >= Len(data) THEN [ value |-> 0, n |-> 0, err |-> NoError ]
    ELSE VarintAt(data, offset, data[offset + 1])

\* the pair whose key of klen bytes starts at koff and whose value length is vl
KeyValueAt(data, koff, klen, vl) ==
    IF klen = 0 THEN [ kv |-> None, offset |-> koff, err |-> NoError ]
    ELSE IF vl.err # NoError THEN [ kv |-> None, offset |-> koff, err |-> vl.err ]
    ELSE [ kv |-> Some(<< Slice(data, koff, koff + klen),
                          Slice(data, koff + klen + vl.n, koff + klen + vl.n + vl.value) >>),
           offset |-> koff + klen + vl.n + vl.value,
           err |-> NoError ]

\* the pair at offset once its key length kl is decoded
KeyAt(data, offset, kl) ==
    IF kl.err # NoError THEN [ kv |-> None, offset |-> offset, err |-> kl.err ]
    ELSE KeyValueAt(data, offset + kl.n, kl.value,
                    _decode_varint(data, offset + kl.n + kl.value))

\* _read_key_value(data, offset): the pair and the new offset, kv = None on a
\* separator or at the end of the data
_read_key_value(data, offset) ==
    IF offset >= Len(data) THEN [ kv |-> None, offset |-> offset, err |-> NoError ]
    ELSE KeyAt(data, offset, _decode_varint(data, offset))

\* one key-value record as to_base64 writes it
KeyValue(key, value) ==
    _encode_varint(Len(key)) \o key \o _encode_varint(Len(value)) \o value

\* the serialized witness stack: item count, then length-prefixed items
StackBytes(stack) ==
    _encode_varint(Len(stack))
    \o Concat([ i \in 1..Len(stack) |-> _encode_varint(Len(stack[i])) \o stack[i] ])

\* the map to_base64 writes for one input
InputMapBytes(inp) ==
    (IF inp.witness_utxo # None
     THEN KeyValue(<< PSBT_IN_WITNESS_UTXO >>,
                   LE(inp.witness_utxo[1][1], 8)
                   \o _encode_varint(Len(inp.witness_utxo[1][2])) \o inp.witness_utxo[1][2])
     ELSE << >>)
    \o (IF inp.tap_internal_key # None /\ inp.tap_internal_key[1] # << >>
        THEN << 1, PSBT_IN_TAP_INTERNAL_KEY >> \o _encode_varint(32) \o inp.tap_internal_key[1]
        ELSE << >>)
    \o (IF inp.tap_merkle_root # None /\ Len(inp.tap_merkle_root[1]) = 32
        THEN << 1, PSBT_IN_TAP_MERKLE_ROOT >> \o _encode_varint(32) \o inp.tap_merkle_root[1]
        ELSE << >>)
    \o (IF inp.tap_leaf_script # None
        THEN KeyValue(<< PSBT_IN_TAP_LEAF_SCRIPT >> \o inp.tap_leaf_script[1][2],
                      << 192 >> \o _encode_varint(Len(inp.tap_leaf_script[1][1]))
                      \o inp.tap_leaf_script[1][1])
        ELSE << >>)
    \o (IF inp.tap_key_sig # None /\ inp.tap_key_sig[1] # << >>
        THEN KeyValue(<< PSBT_IN_TAP_KEY_SIG >>, inp.tap_key_sig[1])
        ELSE << >>)
    \o Concat([ i \in 1..Len(inp.tap_script_sigs) |->
                  KeyValue(<< PSBT_IN_TAP_SCRIPT_SIG >> \o inp.tap_script_sigs[i].key[1]
                           \o inp.tap_script_sigs[i].key[2],
                           inp.tap_script_sigs[i].value) ])
    \o (IF inp.final_script_witness # None /\ inp.final_script_witness[1] # << >>
        THEN KeyValue(<< PSBT_IN_FINAL_SCRIPTWITNESS >>, StackBytes(inp.final_script_witness[1]))
        ELSE << >>)
    \o << 0 >>

\* Psbt.to_base64()
to_base64(self) ==
    PSBT_MAGIC
    \o KeyValue(<< PSBT_GLOBAL_UNSIGNED_TX >>, to_bytes_no_witness(self.tx))
    \o << 0 >>
    \o Concat([ i \in 1..Len(self.inputs) |-> InputMapBytes(self.inputs[i]) ])
    \o << 0 >>

\* the loop over the global map: the last unsigned-tx value and the offset
\* after the separator
RECURSIVE ReadGlobalMap(_, _, _)
GlobalMapStep(raw, unsigned_tx_bytes, r) ==
    IF r.kv = None
    THEN [ unsigned |-> unsigned_tx_bytes, offset |-> r.offset, err |-> r.err ]
    ELSE ReadGlobalMap(raw, r.offset,
                       IF Len(r.kv[1][1]) = 1 /\ r.kv[1][1][1] = PSBT_GLOBAL_UNSIGNED_TX
                       THEN Some(r.kv[1][2]) ELSE unsigned_tx_bytes)

ReadGlobalMap(raw, offset, unsigned_tx_bytes) ==
    IF offset >= Len(raw)
    THEN [ unsigned |-> unsigned_tx_bytes, offset |-> offset, err |-> NoError ]
    ELSE GlobalMapStep(raw, unsigned_tx_bytes, _read_key_value(raw, offset))

\* stack.append(item) before the rest of the items is read
PushItem(item, rest) == [ stack |-> << item >> \o rest.stack, err |-> rest.err ]

\* the items of a serialized witness stack, n of them from offset off
RECURSIVE ReadStack(_, _, _)
StackItem(value, off, n, il) ==
    IF il.err # NoError THEN [ stack |-> << >>, err |-> il.err ]
    ELSE PushItem(Slice(value, off + il.n, off + il.n + il.value),
                  ReadStack(value, off + il.n + il.value, n - 1))

ReadStack(value, off, n) ==
    IF n = 0 THEN [ stack |-> << >>, err |-> NoError ]
    ELSE StackItem(value, off, n, _decode_varint(value, off))

\* the witness stack of a FINAL_SCRIPTWITNESS value whose item count is nl
StackOf(value, nl) ==
    IF nl.err # NoError THEN [ stack |-> << >>, err |-> nl.err ]
    ELSE ReadStack(value, nl.n, nl.value)

\* a length-prefixed field of value: the length sl is read at offset off
PrefixedAt(value, off, sl) == Slice(value, off + sl.n, off + sl.n + sl.value)

\* a parsed input, and the exception a key-value pair raised
Parsed(inp) == [ inp |-> inp, err |-> NoError ]

Raised(inp, err) == [ inp |-> inp, err |-> err ]

\* WITNESS_UTXO: struct.unpack_from("<q", value, 0) needs 8 bytes
WitnessUtxoField(inp, value, sl) ==
    IF Len(value) < 8 THEN Raised(inp, "struct.error")
    ELSE IF sl.err # NoError THEN Raised(inp, sl.err)
    ELSE Parsed([ inp EXCEPT !.witness_utxo =
                    Some(<< DecLE(Slice(value, 0, 8)), PrefixedAt(value, 8, sl) >>) ])

FinalWitnessField(inp, st) ==
    IF st.err # NoError THEN Raised(inp, st.err)
    ELSE Parsed([ inp EXCEPT !.final_script_witness = Some(st.stack) ])

\* TAP_LEAF_SCRIPT: the script follows the leaf version byte
LeafScriptField(inp, key, value, sl) ==
    IF sl.err # NoError THEN Raised(inp, sl.err)
    ELSE Parsed([ inp EXCEPT !.tap_leaf_script =
                    Some(<< PrefixedAt(value, 1, sl), Slice(key, 1, Len(key)) >>) ])

\* the key types with a one-byte key that Psbt and PsbtV2 both read
TaprootKeyValue(inp, kt, value) ==
    CASE kt = PSBT_IN_WITNESS_UTXO -> WitnessUtxoField(inp, value, _decode_varint(value, 8))
      [] kt = PSBT_IN_TAP_INTERNAL_KEY ->
           Parsed([ inp EXCEPT !.tap_internal_key = Some(Slice(value, 0, 32)) ])
      [] kt = PSBT_IN_TAP_MERKLE_ROOT ->
           Parsed([ inp EXCEPT !.tap_merkle_root = Some(Slice(value, 0, 32)) ])
      [] kt = PSBT_IN_TAP_KEY_SIG -> Parsed([ inp EXCEPT !.tap_key_sig = Some(value) ])
      [] kt = PSBT_IN_FINAL_SCRIPTWITNESS ->
           FinalWitnessField(inp, StackOf(value, _decode_varint(value, 0)))
      [] OTHER -> Parsed(inp)

TapScriptSigField(inp, key, value) ==
    Parsed([ inp EXCEPT !.tap_script_sigs =
               DictSet(@, << Slice(key, 1, 33), Slice(key, 33, 65) >>, value) ])

\* a parser without the TAP_SCRIPT_SIG branch
ApplyInputKeyValue_no_script_sig(inp, key, value) ==
    IF Len(key) = 1 THEN TaprootKeyValue(inp, key[1], value)
    ELSE IF Len(key) >= 33 /\ key[1] = PSBT_IN_TAP_LEAF_SCRIPT /\ value # << >>
    THEN LeafScriptField(inp, key, value, _decode_varint(value, 1))
    ELSE Parsed(inp)

\* what Psbt.from_base64 does with one key-value pair of an input map;
\* leaf_ver = value[0] raises IndexError on an empty value
ApplyInputKeyValue(inp, key, value) ==
    IF Len(key) = 1 THEN TaprootKeyValue(inp, key[1], value)
    ELSE IF Len(key) >= 33 /\ key[1] = PSBT_IN_TAP_LEAF_SCRIPT
    THEN IF value = << >> THEN Raised(inp, "IndexError")
         ELSE LeafScriptField(inp, key, value, _decode_varint(value, 1))
    ELSE IF Len(key) = 65 /\ key[1] = PSBT_IN_TAP_SCRIPT_SIG
    THEN TapScriptSigField(inp, key, value)
    ELSE Parsed(inp)

\* the loop over one input map
RECURSIVE ReadInputMap(_, _, _)
InputMapNext(raw, offset, a) ==
    IF a.err # NoError THEN [ inp |-> a.inp, offset |-> offset, err |-> a.err ]
    ELSE ReadInputMap(raw, offset, a.inp)

InputMapStep(raw, inp, r) ==
    IF r.kv = None THEN [ inp |-> inp, offset |-> r.offset, err |-> r.err ]
    ELSE InputMapNext(raw, r.offset, ApplyInputKeyValue(inp, r.kv[1][1], r.kv[1][2]))

ReadInputMap(raw, offset, inp) ==
    IF offset >= Len(raw) THEN [ inp |-> inp, offset |-> offset, err |-> NoError ]
    ELSE InputMapStep(raw, inp, _read_key_value(raw, offset))

\* the loop over the inputs, from input i (0-based)
RECURSIVE ReadInputMaps(_, _, _, _)
InputMapsStep(raw, inputs, i, r) ==
    IF r.err # NoError THEN [ inputs |-> inputs, err |-> r.err ]
    ELSE ReadInputMaps(raw, r.offset, [ inputs EXCEPT ![i + 1] = r.inp ], i + 1)

ReadInputMaps(raw, offset, inputs, i) ==
    IF i >= Len(inputs) THEN [ inputs |-> inputs, err |-> NoError ]
    ELSE InputMapsStep(raw, inputs, i, ReadInputMap(raw, offset, inputs[i + 1]))

\* from_base64 after the input maps: the Psbt, or the exception raised
ParsedPsbt(self, m) ==
    IF m.err # NoError THEN [ status |-> m.err, psbt |-> NoPsbt ]
    ELSE [ status |-> "Psbt", psbt |-> [ self EXCEPT !.inputs = m.inputs ] ]

\* from_base64 after the global map: build the Psbt, then read the input maps
InputMapsOf(raw, offset, self) ==
    ParsedPsbt(self, ReadInputMaps(raw, offset, self.inputs, 0))

AfterGlobalMap(raw, g) ==
    IF g.err # NoError THEN [ status |-> g.err, psbt |-> NoPsbt ]
    ELSE IF g.unsigned = None THEN [ status |-> "ValueError", psbt |-> NoPsbt ]
    ELSE InputMapsOf(raw, g.offset, Psbt(from_raw(g.unsigned[1])))

\* Psbt.from_base64(b64): a Psbt, or the exception raised
from_base64(raw) ==
    IF Slice(raw, 0, Len(PSBT_MAGIC)) # PSBT_MAGIC
    THEN [ status |-> "ValueError", psbt |-> NoPsbt ]
    ELSE AfterGlobalMap(raw, ReadGlobalMap(raw, Len(PSBT_MAGIC), None))

-----------------------------------------------------------------------------
(* psbt.py: PSBT version 2 (BIP 370) *)

PSBT_GLOBAL_TX_VERSION == 2
PSBT_GLOBAL_FALLBACK_LOCKTIME == 3
PSBT_GLOBAL_INPUT_COUNT == 4
PSBT_GLOBAL_OUTPUT_COUNT == 5
PSBT_IN_PREVIOUS_TXID == 14
PSBT_IN_OUTPUT_INDEX == 15
PSBT_IN_SEQUENCE == 16
PSBT_OUT_AMOUNT == 3
PSBT_OUT_SCRIPT == 4

\* PsbtV2Input(): the fields of PsbtInput, then the transaction fields
PsbtV2Input ==
    [ witness_utxo |-> None,
      tap_internal_key |-> None,
      tap_merkle_root |-> None,
      tap_leaf_script |-> None,
      tap_key_sig |-> None,
      tap_script_sigs |-> << >>,
      final_script_witness |-> None,
      _tapleaf_script_obj |-> None,
      previous_txid |-> None,
      output_index |-> None,
      sequence |-> U32(65535, 65535) ]

\* PsbtV2Output()
PsbtV2Output == [ amount |-> 0, script_pubkey |-> << >> ]

\* PsbtV2()
PsbtV2 ==
    [ exists |-> TRUE,
      tx_version |-> U32(0, 2),
      fallback_locktime |-> U32(0, 0),
      inputs |-> << >>,
      outputs |-> << >> ]

\* no PsbtV2 object has been created
NoPsbtV2 == [ exists |-> FALSE ]

\* PsbtV2.from_psbt_v0: the input made from input inp of the Psbt and input
\* bu_in of its transaction
V2InputOf(inp, bu_in) ==
    [ PsbtV2Input EXCEPT
        !.witness_utxo = inp.witness_utxo,
        !.tap_internal_key = inp.tap_internal_key,
        !.tap_merkle_root = inp.tap_merkle_root,
        !.tap_leaf_script = inp.tap_leaf_script,
        !.tap_key_sig = inp.tap_key_sig,
        !.tap_script_sigs = inp.tap_script_sigs,
        !.final_script_witness = inp.final_script_witness,
        !._tapleaf_script_obj = inp._tapleaf_script_obj,
        !.previous_txid = Some(bu_in.txid),
        !.output_index = Some(bu_in.txout_index),
        !.sequence = unpack_I(bu_in.sequence) ]

\* PsbtV2.from_psbt_v0(psbt)
from_psbt_v0(self) ==
    [ PsbtV2 EXCEPT
        !.tx_version = unpack_I(self.tx.version),
        !.fallback_locktime = unpack_I(self.tx.locktime),
        !.inputs = [ i \in 1..Len(self.inputs) |-> V2InputOf(self.inputs[i], self.tx.inputs[i]) ],
        !.outputs = [ i \in 1..Len(self.tx.outputs) |->
                        [ amount |-> self.tx.outputs[i].amount,
                          script_pubkey |-> self.tx.outputs[i].script_pubkey ] ] ]

\* Psbt.to_v2()
to_v2(self) == from_psbt_v0(self)

\* int(self.tx_version or 2)
VersionOr2(v) == IF v = U32(0, 0) THEN U32(0, 2) ELSE v

\* the global map PsbtV2.to_base64 writes
V2GlobalMapBytes(self) ==
    KeyValue(<< PSBT_GLOBAL_TX_VERSION >>, pack_I(VersionOr2(self.tx_version)))
    \o KeyValue(<< PSBT_GLOBAL_FALLBACK_LOCKTIME >>, pack_I(self.fallback_locktime))
    \o KeyValue(<< PSBT_GLOBAL_INPUT_COUNT >>, _encode_varint(Len(self.inputs)))
    \o KeyValue(<< PSBT_GLOBAL_OUTPUT_COUNT >>, _encode_varint(Len(self.outputs)))
    \o << 0 >>

\* the transaction fields PsbtV2.to_base64 writes at the head of an input map
V2TxFieldBytes(inp) ==
    (IF inp.previous_txid # None /\ inp.previous_txid[1] # << >>
     THEN << 1, PSBT_IN_PREVIOUS_TXID >> \o _encode_varint(32) \o inp.previous_txid[1]
     ELSE << >>)
    \o (IF inp.output_index # None
        THEN KeyValue(<< PSBT_IN_OUTPUT_INDEX >>, LE(inp.output_index[1], 4))
        ELSE << >>)
    \o KeyValue(<< PSBT_IN_SEQUENCE >>, pack_I(inp.sequence))

\* the map PsbtV2.to_base64 writes for one output
V2OutputMapBytes(out) ==
    KeyValue(<< PSBT_OUT_AMOUNT >>, LE(out.amount, 8))
    \o KeyValue(<< PSBT_OUT_SCRIPT >>, out.script_pubkey)
    \o << 0 >>

\* PsbtV2.to_base64(): the Taproot fields of an input are written as
\* Psbt.to_base64 writes them
PsbtV2_to_base64(self) ==
    PSBT_MAGIC
    \o V2GlobalMapBytes(self)
    \o Concat([ i \in 1..Len(self.inputs) |->
                  V2TxFieldBytes(self.inputs[i]) \o InputMapBytes(self.inputs[i]) ])
    \o Concat([ i \in 1..Len(self.outputs) |-> V2OutputMapBytes(self.outputs[i]) ])

\* "0" * 64 as the bytes the hex digits spell
ZeroTxid == [ i \in 1..32 |-> 0 ]

\* PsbtV2.extract_transaction(): the inputs
V2TxIns(self) ==
    [ i \in 1..Len(self.inputs) |->
        TxInput(IF self.inputs[i].previous_txid # None /\ self.inputs[i].previous_txid[1] # << >>
                THEN self.inputs[i].previous_txid[1] ELSE ZeroTxid,
                IF self.inputs[i].output_index # None THEN self.inputs[i].output_index[1] ELSE 0,
                pack_I(self.inputs[i].sequence)) ]

\* PsbtV2.extract_transaction(): one witness per input, the stored final
\* witness where there is a non-empty one
V2Witnesses(self) ==
    [ i \in 1..Len(self.inputs) |->
        IF self.inputs[i].final_script_witness # None
        THEN self.inputs[i].final_script_witness[1]
        ELSE << >> ]

\* PsbtV2.extract_transaction()
PsbtV2_extract_transaction(self) ==
    [ BUTransaction(V2TxIns(self),
                    [ i \in 1..Len(self.outputs) |->
                        TxOutput(self.outputs[i].amount, self.outputs[i].script_pubkey) ],
                    TRUE)
      EXCEPT !.witnesses = V2Witnesses(self) ]

\* a parsed global map g of a PsbtV2, and the exception a pair raised
V2Global(g, err) == [ g |-> g, err |-> err ]

\* the global fields PsbtV2.from_base64 has seen none of
NoV2Global ==
    [ tx_version |-> None, fallback_locktime |-> None,
      input_count |-> None, output_count |-> None ]

V2InputCount(g, nl) ==
    IF nl.err # NoError THEN V2Global(g, nl.err)
    ELSE V2Global([ g EXCEPT !.input_count = Some(nl.value) ], NoError)

V2OutputCount(g, nl) ==
    IF nl.err # NoError THEN V2Global(g, nl.err)
    ELSE V2Global([ g EXCEPT !.output_count = Some(nl.value) ], NoError)

\* what PsbtV2.from_base64 does with one pair of the global map whose key
\* has one byte; struct.unpack("<I", value) needs exactly 4 bytes
V2GlobalField(g, kt, value) ==
    CASE kt = PSBT_GLOBAL_TX_VERSION ->
           IF Len(value) # 4 THEN V2Global(g, "struct.error")
           ELSE V2Global([ g EXCEPT !.tx_version = Some(unpack_I(value)) ], NoError)
      [] kt = PSBT_GLOBAL_FALLBACK_LOCKTIME ->
           IF Len(value) # 4 THEN V2Global(g, "struct.error")
           ELSE V2Global([ g EXCEPT !.fallback_locktime = Some(unpack_I(value)) ], NoError)
      [] kt = PSBT_GLOBAL_INPUT_COUNT -> V2InputCount(g, _decode_varint(value, 0))
      [] kt = PSBT_GLOBAL_OUTPUT_COUNT -> V2OutputCount(g, _decode_varint(value, 0))
      [] OTHER -> V2Global(g, NoError)

\* the loop over the global map of a PsbtV2
RECURSIVE ReadV2GlobalMap(_, _, _)
V2GlobalNext(raw, offset, a) ==
    IF a.err # NoError THEN [ g |-> a.g, offset |-> offset, err |-> a.err ]
    ELSE ReadV2GlobalMap(raw, offset, a.g)

V2GlobalStep(raw, g, r) ==
    IF r.kv = None THEN [ g |-> g, offset |-> r.offset, err |-> r.err ]
    ELSE V2GlobalNext(raw, r.offset,
                      IF Len(r.kv[1][1]) = 1 THEN V2GlobalField(g, r.kv[1][1][1], r.kv[1][2])
                      ELSE V2Global(g, NoError))

ReadV2GlobalMap(raw, offset, g) ==
    IF offset >= Len(raw) THEN [ g |-> g, offset |-> offset, err |-> NoError ]
    ELSE V2GlobalStep(raw, g, _read_key_value(raw, offset))

\* what PsbtV2.from_base64 does with one key-value pair of an input map
ApplyV2InputKeyValue(inp, key, value) ==
    IF Len(key) = 1
    THEN CASE key[1] = PSBT_IN_PREVIOUS_TXID ->
                Parsed([ inp EXCEPT !.previous_txid = Some(Slice(value, 0, 32)) ])
           [] key[1] = PSBT_IN_OUTPUT_INDEX ->
                IF Len(value) # 4 THEN Raised(inp, "struct.error")
                ELSE Parsed([ inp EXCEPT !.output_index = Some(DecLE(value)) ])
           [] key[1] = PSBT_IN_SEQUENCE ->
                IF Len(value) # 4 THEN Raised(inp, "struct.error")
                ELSE Parsed([ inp EXCEPT !.sequence = unpack_I(value) ])
           [] OTHER -> TaprootKeyValue(inp, key[1], value)
    ELSE IF Len(key) >= 33 /\ key[1] = PSBT_IN_TAP_LEAF_SCRIPT
    THEN LeafScriptField(inp, key, value, _decode_varint(value, 1))
    ELSE IF Len(key) = 65 /\ key[1] = PSBT_IN_TAP_SCRIPT_SIG
    THEN TapScriptSigField(inp, key, value)
    ELSE Parsed(inp)

\* the loop over one input map of a PsbtV2
RECURSIVE ReadV2InputMap(_, _, _)
V2InputMapNext(raw, offset, a) ==
    IF a.err # NoError THEN [ inp |-> a.inp, offset |-> offset, err |-> a.err ]
    ELSE ReadV2InputMap(raw, offset, a.inp)

V2InputMapStep(raw, inp, r) ==
    IF r.kv = None THEN [ inp |-> inp, offset |-> r.offset, err |-> r.err ]
    ELSE V2InputMapNext(raw, r.offset, ApplyV2InputKeyValue(inp, r.kv[1][1], r.kv[1][2]))

ReadV2InputMap(raw, offset, inp) ==
    IF offset >= Len(raw) THEN [ inp |-> inp, offset |-> offset, err |-> NoError ]
    ELSE V2InputMapStep(raw, inp, _read_key_value(raw, offset))

\* v2.inputs.append(inp) / v2.outputs.append(out) before the rest is read
V2Appended(item, rest) ==
    [ items |-> << item >> \o rest.items, offset |-> rest.offset, err |-> rest.err ]

\* for _ in range(input_count): n more input maps from offset
RECURSIVE ReadV2Inputs(_, _, _)
V2InputsStep(raw, n, r) ==
    IF r.err # NoError THEN [ items |-> << >>, offset |-> r.offset, err |-> r.err ]
    ELSE V2Appended(r.inp, ReadV2Inputs(raw, r.offset, n - 1))

ReadV2Inputs(raw, offset, n) ==
    IF n = 0 THEN [ items |-> << >>, offset |-> offset, err |-> NoError ]
    ELSE V2InputsStep(raw, n, ReadV2InputMap(raw, offset, PsbtV2Input))

\* what PsbtV2.from_base64 does with one key-value pair of an output map;
\* struct.unpack("<q", value) needs exactly 8 bytes
ApplyV2OutputKeyValue(out, key, value) ==
    IF Len(key) = 1 /\ key[1] = PSBT_OUT_AMOUNT
    THEN IF Len(value) # 8 THEN [ out |-> out, err |-> "struct.error" ]
         ELSE [ out |-> [ out EXCEPT !.amount = DecLE(value) ], err |-> NoError ]
    ELSE IF Len(key) = 1 /\ key[1] = PSBT_OUT_SCRIPT
    THEN [ out |-> [ out EXCEPT !.script_pubkey = value ], err |-> NoError ]
    ELSE [ out |-> out, err |-> NoError ]

\* the loop over one output map of a PsbtV2
RECURSIVE ReadV2OutputMap(_, _, _)
V2OutputMapNext(raw, offset, a) ==
    IF a.err # NoError THEN [ out |-> a.out, offset |-> offset, err |-> a.err ]
    ELSE ReadV2OutputMap(raw, offset, a.out)

V2OutputMapStep(raw, out, r) ==
    IF r.kv = None THEN [ out |-> out, offset |-> r.offset, err |-> r.err ]
    ELSE V2OutputMapNext(raw, r.offset, ApplyV2OutputKeyValue(out, r.kv[1][1], r.kv[1][2]))

ReadV2OutputMap(raw, offset, out) ==
    IF offset >= Len(raw) THEN [ out |-> out, offset |-> offset, err |-> NoError ]
    ELSE V2OutputMapStep(raw, out, _read_key_value(raw, offset))

\* for _ in range(output_count): n more output maps from offset
RECURSIVE ReadV2Outputs(_, _, _)
V2OutputsStep(raw, n, r) ==
    IF r.err # NoError THEN [ items |-> << >>, offset |-> r.offset, err |-> r.err ]
    ELSE V2Appended(r.out, ReadV2Outputs(raw, r.offset, n - 1))

ReadV2Outputs(raw, offset, n) ==
    IF n = 0 THEN [ items |-> << >>, offset |-> offset, err |-> NoError ]
    ELSE V2OutputsStep(raw, n, ReadV2OutputMap(raw, offset, PsbtV2Output))

\* PsbtV2.from_base64 once all maps are read
ParsedPsbtV2(g, ins, outs) ==
    IF outs.err # NoError THEN [ status |-> outs.err, psbt |-> NoPsbtV2 ]
    ELSE [ status |-> "PsbtV2",
           psbt |-> [ PsbtV2 EXCEPT
                        !.tx_version = IF g.tx_version # None THEN g.tx_version[1] ELSE @,
                        !.fallback_locktime =
                            IF g.fallback_locktime # None THEN g.fallback_locktime[1] ELSE @,
                        !.inputs = ins.items,
                        !.outputs = outs.items ] ]

\* PsbtV2.from_base64 once the input maps are read
AfterV2Inputs(raw, g, ins) ==
    IF ins.err # NoError THEN [ status |-> ins.err, psbt |-> NoPsbtV2 ]
    ELSE ParsedPsbtV2(g, ins, ReadV2Outputs(raw, ins.offset, g.output_count[1]))

\* PsbtV2.from_base64 once the global map is read
AfterV2GlobalMap(raw, m) ==
    IF m.err # NoError THEN [ status |-> m.err, psbt |-> NoPsbtV2 ]
    ELSE IF m.g.input_count = None \/ m.g.output_count = None
    THEN [ status |-> "ValueError", psbt |-> NoPsbtV2 ]
    ELSE AfterV2Inputs(raw, m.g, ReadV2Inputs(raw, m.offset, m.g.input_count[1]))

\* PsbtV2.from_base64(b64): a PsbtV2, or the exception raised
PsbtV2_from_base64(raw) ==
    IF Slice(raw, 0, Len(PSBT_MAGIC)) # PSBT_MAGIC
    THEN [ status |-> "ValueError", psbt |-> NoPsbtV2 ]
    ELSE AfterV2GlobalMap(raw, ReadV2GlobalMap(raw, Len(PSBT_MAGIC), NoV2Global))

-----------------------------------------------------------------------------
(* Inputs of the spend model *)

\* a transaction id: 64 hex digits, kept as the 32 bytes they spell
TxidHex(n) == [ i \in 1..32 |-> (16 * n + i) % 256 ]

\* UTXOs (txid, vout, sats) of the program being spent
Utxo1 == << TxidHex(1), 0, 1200 >>

Utxo2 == << TxidHex(2), 1, 800 >>

\* a destination (address, sats): a Taproot address of bob
Output1 == << TaprootAddress("bob", 0), 1000 >>

\* an output of more than either UTXO holds
Output2 == << TaprootAddress("carol", 0), 1500 >>

\* values passed to sequence(): 0 and 0xffffffff
SequenceInputs == { U32(0, 0), U32(65535, 65535) }

\* the witness stack passed to unlock_with()
CustomWitness == << << 1 >> >>

\* program.spend(label) for every label, and program.keypath()
FreshBuilders ==
    { NewSpendBuilder(p, Some(l), FALSE) :
        p \in DOMAIN Programs, l \in { "hash", "2of2", "csv", "bobsig", "raw", "2of3" } }
    \cup { NewSpendBuilder(p, None, TRUE) : p \in DOMAIN Programs }

\* spend() raises KeyError for a label the program does not have
ValidBuilders ==
    { s \in FreshBuilders :
        s.leaf # None => s.leaf[1] \in DOMAIN Programs[s.program].leaf_descriptors }

\* what the last SpendBuilder call returned: the builder itself (fluent
\* calls), a Transaction, a Psbt, or an error
ReturnSelf == [ op |-> "fluent", status |-> "self" ]

\* no Psbt call has been made
NoCall ==
    [ op |-> "none", key |-> "", input_index |-> 0, outcome |-> "", tx |-> None,
      repeat |-> FALSE ]

PsbtIdle ==
    /\ psbt = NoPsbt /\ psbt2 = NoPsbtV2 /\ wire = << >> /\ p_ret = NoCall
    /\ p_keys = { }

\* the providers broadcast_parallel submits to, in the order of its list
Providers == << "mempool", "blockstream" >>

\* a future whose call has not been submitted
NoFuture == [ state |-> "unsubmitted", outcome |-> [ kind |-> "none", value |-> "" ] ]

\* broadcast_parallel is not running
BroadcastIdle ==
    /\ bp_pc = "idle" /\ bp_tx_hex = ""
    /\ bp_futures = [ p \in { Providers[1], Providers[2] } |-> NoFuture ]
    /\ bp_completed = << >> /\ bp_queue = << >> /\ bp_pending = { }
    /\ bp_result = [ status |-> "none", value |-> "" ]

\* a server thread that serves no request
NoRequest == [ pc |-> "idle", address |-> [ prefix |-> "", len |-> 0 ], now |-> 0,
               txid |-> "" ]

\* the faucet server is not running
FaucetIdle ==
    /\ f_wif = FALSE /\ f_now = 0 /\ f_last_drip = << >>
    /\ f_req = << >> /\ f_responses = << >>

\* neither helper outside the core is running
ExtIdle == BroadcastIdle /\ FaucetIdle


\* no SpendBuilder and no Psbt exist
SpendIdle ==
    /\ sb = NewSpendBuilder("keyonly", None, TRUE) /\ sb_ret = ReturnSelf
    /\ PsbtIdle

-----------------------------------------------------------------------------
(* tree/builder.py: TapTree *)

\* labels a caller passes: none, or one of these
ExplicitLabels == { "a", "_leaf1" }

\* f"_leaf{n}"
AutoLabel(n) ==
    CASE n = 0 -> "_leaf0" [] n = 1 -> "_leaf1" [] n = 2 -> "_leaf2"
      [] n = 3 -> "_leaf3" [] n = 4 -> "_leaf4" [] OTHER -> "_leafN"

_ensure_label(label) == IF label = NoneStr THEN AutoLabel(t_leaf_counter) ELSE label

\* no TaprootProgram is held
NoProgram == [ exists |-> FALSE ]

\* TaprootProgram(internal_key, leaves, network): the object keeps the list
\* it was given (self._raw_leaves = leaves), not a copy, and compiles it once
TaprootProgram(internal_key, leaves, network) ==
    [ exists |-> TRUE,
      _raw_leaves |-> leaves,
      program |-> CompileProgram(internal_key, leaves, network) ]

\* AppendLeaf, were the held program to compile from _raw_leaves on every read
AppendLeaf_recompiling(label, script_type, params) ==
    /\ t_leaves' = Append(t_leaves, [ label |-> _ensure_label(label),
                                      index |-> t_leaf_counter,
                                      script_type |-> script_type,
                                      params |-> params ])
    /\ t_leaf_counter' = t_leaf_counter + 1
    /\ t_last' = "ok"
    /\ t_program' = IF t_program.exists
                    THEN TaprootProgram(t_internal_key, t_leaves', t_network)
                    ELSE t_program
    /\ UNCHANGED << t_internal_key, t_network, t_result >>

\* self._leaves.append({...}) with "index": self._next_index()
AppendLeaf(label, script_type, params) ==
    /\ t_leaves' = Append(t_leaves, [ label |-> _ensure_label(label),
                                      index |-> t_leaf_counter,
                                      script_type |-> script_type,
                                      params |-> params ])
    /\ t_leaf_counter' = t_leaf_counter + 1
    /\ t_last' = "ok"
    /\ t_program' = IF t_program.exists
                    THEN [ t_program EXCEPT !._raw_leaves = t_leaves' ]
                    ELSE t_program
    /\ UNCHANGED << t_internal_key, t_network, t_result >>

\* a call that raised before it changed the tree
RaiseValueError ==
    /\ t_last' = "ValueError"
    /\ UNCHANGED << t_internal_key, t_network, t_leaves, t_leaf_counter, t_result,
                    t_program >>

hashlock ==
    /\ Len(t_leaves) < MaxTreeLeaves
    /\ \E preimage \in { "helloworld" }, label \in ExplicitLabels \cup { NoneStr } :
          AppendLeaf(label, "HASHLOCK", [ preimage_hash |-> sha256(preimage) ])
    /\ UNCHANGED << ext_vars, mk_vars, b_vars, p_vars >>

checksig ==
    /\ Len(t_leaves) < MaxTreeLeaves
    /\ \E key \in { "bob" }, label \in ExplicitLabels \cup { NoneStr } :
          AppendLeaf(label, "CHECKSIG", [ pubkey |-> xonly(key) ])
    /\ UNCHANGED << ext_vars, mk_vars, b_vars, p_vars >>

multisig ==
    /\ Len(t_leaves) < MaxTreeLeaves
    /\ \E threshold \in { 0, 2, 3 }, keys \in { << "alice", "bob" >> },
          label \in ExplicitLabels \cup { NoneStr } :
          IF threshold > Len(keys)
          THEN RaiseValueError
          ELSE AppendLeaf(label, "MULTISIG",
                          [ threshold |-> threshold,
                            pubkeys |-> [ i \in 1..Len(keys) |-> xonly(keys[i]) ] ])
    /\ UNCHANGED << ext_vars, mk_vars, b_vars, p_vars >>

\* time-based locks (timestamp alone) are left out: whether their script
\* compiles is decided by bitcoinutils' Sequence, not by this code
timelock ==
    /\ Len(t_leaves) < MaxTreeLeaves
    /\ \E bt \in { << 2, NoneInt >>, << NoneInt, NoneInt >>, << 2, 1024 >> },
          then \in { "bob" }, label \in ExplicitLabels \cup { NoneStr } :
          LET blocks == bt[1]
              timestamp == bt[2]
          IN  IF blocks = NoneInt /\ timestamp = NoneInt THEN RaiseValueError
              ELSE IF blocks # NoneInt /\ timestamp # NoneInt THEN RaiseValueError
              ELSE AppendLeaf(label, "CSV_TIMELOCK",
                              [ sequence_value |-> blocks,
                                blocks |-> blocks,
                                timestamp |-> timestamp,
                                pubkey |-> xonly(then) ])
    /\ UNCHANGED << ext_vars, mk_vars, b_vars, p_vars >>

custom ==
    /\ Len(t_leaves) < MaxTreeLeaves
    /\ \E script \in DOMAIN CustomScripts, label \in ExplicitLabels :
          AppendLeaf(label, "CUSTOM", [ script |-> script ])
    /\ UNCHANGED << ext_vars, mk_vars, b_vars, p_vars >>

\* TapTree.build(): TaprootProgram(internal_key, leaves, network)
build ==
    /\ t_result' = [ status |-> "program",
                     raw_leaves |-> t_leaves,
                     program |-> CompileProgram(t_internal_key, t_leaves, t_network) ]
    /\ t_last' = "ok"
    /\ t_program' = IF t_program.exists THEN t_program
                    ELSE TaprootProgram(t_internal_key, t_leaves, t_network)
    /\ UNCHANGED << t_internal_key, t_network, t_leaves, t_leaf_counter >>
    /\ UNCHANGED << ext_vars, mk_vars, b_vars, p_vars >>

\* the state of a TapTree nobody has called yet
TreeNew(network) ==
    /\ t_internal_key = "alice"
    /\ t_network = network
    /\ t_leaves = << >>
    /\ t_leaf_counter = 0
    /\ t_last = "new"
    /\ t_result = [ status |-> "none" ]

\* TapTree(alice): the network defaults to "testnet"; nothing is built yet
TreeInit == TreeNew("testnet") /\ t_program = NoProgram

\* the networks a TapTree is made for
Networks == { "mainnet", "testnet", "signet", "regtest" }

TreeNext == hashlock \/ checksig \/ multisig \/ timelock \/ custom \/ build

\* the Merkle walk-through is not running
MerkleIdle ==
    /\ mk_pc = "idle" /\ mk_leaf_hashes = << >> /\ mk_index = 0 /\ mk_root = RAISED
    /\ mk_tree_root = RAISED /\ mk_proof = << >> /\ mk_key = "alice"
    /\ mk_is_odd = FALSE /\ mk_cb = << >>

SpecTreeInit ==
    /\ \E network \in Networks : TreeNew(network)
    /\ t_program = NoProgram
    /\ MerkleIdle /\ SpendIdle /\ ExtIdle

\* TapTree: every sequence of leaf-adding calls and build() within the bounds
SpecTree == SpecTreeInit /\ [][TreeNext]_vars

-----------------------------------------------------------------------------
(* Specification SpecBuilder: the fluent calls of a SpendBuilder in every   *)
(* order, build() and to_psbt().                                            *)

from_utxo ==
    /\ \E u \in { Utxo1 }, colon_form \in BOOLEAN :
          LET txid == [ hex |-> u[1], suffix |-> IF colon_form THEN Some(u[2]) ELSE None ]
              vout == IF colon_form THEN None ELSE Some(u[2])
              split == txid.suffix # None /\ vout = None
          IN  sb' = [ sb EXCEPT !.utxos =
                        << << txid.hex, IF split THEN txid.suffix[1] ELSE vout[1], u[3] >> >> ]
    /\ sb_ret' = ReturnSelf
    /\ UNCHANGED << ext_vars, mk_vars, t_vars, p_vars >>

from_utxos ==
    /\ \E utxos \in { << Utxo1, Utxo2 >> } :
          sb' = [ sb EXCEPT !.utxos = [ i \in 1..Len(utxos) |->
                                          << utxos[i][1], utxos[i][2], utxos[i][3] >> ] ]
    /\ sb_ret' = ReturnSelf
    /\ UNCHANGED << ext_vars, mk_vars, t_vars, p_vars >>

to ==
    /\ Len(sb.outputs) < MaxOutputs
    /\ \E out \in { Output1, Output2 } :
          sb' = [ sb EXCEPT !.outputs = Append(@, << out[1], out[2] >>) ]
    /\ sb_ret' = ReturnSelf
    /\ UNCHANGED << ext_vars, mk_vars, t_vars, p_vars >>

sequence ==
    /\ \E value \in SequenceInputs : sb' = [ sb EXCEPT !.sequence = Some(value) ]
    /\ sb_ret' = ReturnSelf
    /\ UNCHANGED << ext_vars, mk_vars, t_vars, p_vars >>

unlock ==
    /\ \E preimage \in { None, Some("helloworld") } :
          sb' = IF preimage # None THEN [ sb EXCEPT !.preimage = preimage ] ELSE sb
    /\ sb_ret' = ReturnSelf
    /\ UNCHANGED << ext_vars, mk_vars, t_vars, p_vars >>

sign ==
    /\ \E keys \in SeqsOf(Keys, 1, MaxSigners - Len(sb.signatures)) :
          sb' = [ sb EXCEPT !.signatures = @ \o keys ]
    /\ sb_ret' = ReturnSelf
    /\ UNCHANGED << ext_vars, mk_vars, t_vars, p_vars >>

unlock_with ==
    /\ \E witness_elements \in { CustomWitness } :
          sb' = [ sb EXCEPT !.custom_witness = Some(witness_elements) ]
    /\ sb_ret' = ReturnSelf
    /\ UNCHANGED << ext_vars, mk_vars, t_vars, p_vars >>

SpendBuild ==
    /\ sb_ret' = [ op |-> "build", result |-> SpendBuilder_build(sb) ]
    /\ UNCHANGED << sb, ext_vars, mk_vars, t_vars, p_vars >>

SpendToPsbt ==
    /\ sb_ret' =
          [ op |-> "to_psbt",
            result |->
              IF sb.utxos = << >> THEN BuildError("No UTXO specified")
              ELSE IF sb.outputs = << >> THEN BuildError("No outputs specified")
              ELSE [ status |-> "Psbt", psbt |-> to_psbt(sb) ] ]
    /\ UNCHANGED << sb, ext_vars, mk_vars, t_vars, p_vars >>

\* the program of a spend builder, as the caller holds it
HeldProgram(name) == TaprootProgram("alice", ProgramLeaves[name], "testnet")

BuilderInit ==
    /\ TreeNew("testnet") /\ MerkleIdle /\ PsbtIdle /\ ExtIdle
    /\ sb \in ValidBuilders
    /\ t_program = HeldProgram(sb.program)
    /\ sb_ret = [ op |-> "new", status |-> "self" ]

BuilderNext ==
    \/ from_utxo \/ from_utxos \/ to \/ sequence \/ unlock \/ sign \/ unlock_with
    \/ SpendBuild \/ SpendToPsbt

SpecBuilder == BuilderInit /\ [][BuilderNext]_vars

-----------------------------------------------------------------------------
(* Specification SpecPsbt: a configured SpendBuilder, the Psbt it creates    *)
(* and the calls made on it; a serialized Psbt is parsed before the next     *)
(* call.                                                                     *)

\* the builders spends of two UTXOs are made from: the key path of the
\* four-leaf program and the 2-of-3 multisig leaf
TwoInputBuilders ==
    { s \in ValidBuilders : (s.program = "tree4" /\ s.is_keypath) \/ s.leaf = Some("2of3") }

\* a builder after from_utxo/from_utxos, to and possibly sequence
ConfiguredBuilders ==
    { [ s EXCEPT !.utxos = << Utxo1 >>, !.outputs = << Output1 >>, !.sequence = seq ] :
        s \in ValidBuilders, seq \in { None, Some(U32(0, 0)) } }
    \cup { [ s EXCEPT !.utxos = << Utxo1, Utxo2 >>, !.outputs = << Output1 >> ] :
             s \in TwoInputBuilders }

\* the record of a Psbt call
Call(op, key, input_index, outcome, tx) ==
    [ op |-> op, key |-> key, input_index |-> input_index, outcome |-> outcome, tx |-> tx,
      repeat |-> FALSE ]

\* the input already holds a signature that sign_with(key, .) stored
SignedBefore(inp, key) ==
    IF inp.tap_leaf_script # None
    THEN \E e \in 1..Len(inp.tap_script_sigs) :
            inp.tap_script_sigs[e].key
              = << xonly(key), Bytes32(tapleaf_hash(inp.tap_leaf_script[1][1])) >>
    ELSE inp.tap_key_sig # None /\ inp.tap_key_sig[1][1] = KeyTag(key)

ToPsbt ==
    /\ ~psbt.exists /\ ~psbt2.exists /\ wire = << >>
    /\ psbt' = to_psbt(sb)
    /\ p_ret' = Call("to_psbt", "", 0, "ok", None)
    /\ UNCHANGED << psbt2, wire, p_keys >>
    /\ UNCHANGED << ext_vars, mk_vars, t_vars, b_vars >>

\* a leaf hash other than the hash of script: a signature made for another
\* leaf of a tree
OtherLeafHash(script) == (tapleaf_hash(script) + 1) % LeafHashSpace

\* the PSBT of spend with, on input j, one TAP_SCRIPT_SIG of alice that is
\* recorded for another leaf hash
SignedForOtherLeaf(self, j) ==
    [ self EXCEPT !.inputs[j].tap_script_sigs =
        << [ key |-> << xonly("alice"),
                        Bytes32(OtherLeafHash(self.inputs[j].tap_leaf_script[1][1])) >>,
             value |-> sign_taproot_input("alice", self.tx, j - 1, WitnessUtxoScripts(self),
                                          WitnessUtxoAmounts(self), TRUE,
                                          OtherLeafHash(self.inputs[j].tap_leaf_script[1][1]),
                                          FALSE, 0) ] >> ]

\* PSBTs for the same spend that another BIP-174 tool wrote, with the keys
\* that tool signed with: one without the witness UTXO of an input, one (for
\* a script-path spend) with a signature for another leaf
ForeignPsbts(spend) ==
    { [ wire |-> to_base64([ to_psbt(spend) EXCEPT !.inputs[j].witness_utxo = None ]),
        signers |-> { } ] : j \in 1..Len(spend.utxos) }
    \cup { [ wire |-> to_base64(SignedForOtherLeaf(to_psbt(spend), j)),
             signers |-> { "alice" } ] :
             j \in IF spend.is_keypath THEN { } ELSE 1..Len(spend.utxos) }

ReceiveForeign ==
    /\ ~psbt.exists /\ ~psbt2.exists /\ wire = << >>
    /\ \E f \in ForeignPsbts(sb) :
          /\ wire' = f.wire
          /\ p_keys' = f.signers
    /\ p_ret' = Call("receive", "", 0, "ok", None)
    /\ UNCHANGED << psbt, psbt2 >>
    /\ UNCHANGED << ext_vars, mk_vars, t_vars, b_vars >>

\* the keys sign_with is called with: any key for a spend of one UTXO, the
\* first two for a spend of two
SigningKeys(spend) == IF Len(spend.utxos) > 1 THEN { "alice", "bob" } ELSE Keys

SignWith ==
    /\ psbt.exists /\ ~psbt2.exists /\ wire = << >>
    /\ \E key \in SigningKeys(sb), input_index \in 0..(Len(psbt.inputs) - 1) :
          LET r == sign_with(psbt, key, input_index)
          IN  /\ psbt' = r.psbt
              /\ p_ret' = [ Call("sign_with", key, input_index, r.outcome, None)
                             EXCEPT !.repeat = SignedBefore(psbt.inputs[input_index + 1], key) ]
              /\ p_keys' = p_keys \cup { key }
    /\ UNCHANGED << psbt2, wire >>
    /\ UNCHANGED << ext_vars, mk_vars, t_vars, b_vars >>

Finalize ==
    /\ psbt.exists /\ ~psbt2.exists /\ wire = << >>
    /\ LET r == finalize(psbt)
       IN  /\ psbt' = r.psbt
           /\ p_ret' = [ Call("finalize", "", 0, r.outcome, None)
                          EXCEPT !.repeat = PartlyFinalized(psbt) ]
    /\ UNCHANGED << psbt2, wire, p_keys >>
    /\ UNCHANGED << ext_vars, mk_vars, t_vars, b_vars >>

ToBase64 ==
    /\ psbt.exists /\ ~psbt2.exists /\ wire = << >>
    /\ wire' = to_base64(psbt)
    /\ p_ret' = Call("to_base64", "", 0, "ok", None)
    /\ UNCHANGED << psbt, psbt2, p_keys >>
    /\ UNCHANGED << ext_vars, mk_vars, t_vars, b_vars >>

\* Psbt.from_base64(wire): the caller goes on with the parsed Psbt
FromBase64 ==
    /\ wire # << >> /\ ~psbt2.exists
    /\ LET r == from_base64(wire)
       IN  /\ psbt' = r.psbt
           /\ p_ret' = Call("from_base64", "", 0, r.status, None)
    /\ wire' = << >>
    /\ UNCHANGED << psbt2, p_keys >>
    /\ UNCHANGED << ext_vars, mk_vars, t_vars, b_vars >>

ExtractTransaction ==
    /\ psbt.exists /\ ~psbt2.exists /\ wire = << >>
    /\ p_ret' = Call("extract_transaction", "", 0, "ok", Some(extract_transaction(psbt)))
    /\ UNCHANGED << psbt, psbt2, wire, p_keys >>
    /\ UNCHANGED << ext_vars, mk_vars, t_vars, b_vars >>

\* p.to_v2() on the Psbt that finalize() has just completed
ToV2 ==
    /\ psbt.exists /\ ~psbt2.exists /\ wire = << >>
    /\ p_ret.op = "finalize" /\ p_ret.outcome = "ok"
    /\ psbt2' = to_v2(psbt)
    /\ p_ret' = Call("to_v2", "", 0, "ok", None)
    /\ UNCHANGED << psbt, wire, p_keys >>
    /\ UNCHANGED << ext_vars, mk_vars, t_vars, b_vars >>

V2ToBase64 ==
    /\ psbt2.exists /\ wire = << >>
    /\ wire' = PsbtV2_to_base64(psbt2)
    /\ p_ret' = Call("v2_to_base64", "", 0, "ok", None)
    /\ UNCHANGED << psbt, psbt2, p_keys >>
    /\ UNCHANGED << ext_vars, mk_vars, t_vars, b_vars >>

\* PsbtV2.from_base64(wire), by a caller that holds a PsbtV2 or no object
V2FromBase64 ==
    /\ wire # << >> /\ (psbt2.exists \/ ~psbt.exists)
    /\ LET r == PsbtV2_from_base64(wire)
       IN  /\ psbt2' = r.psbt
           /\ p_ret' = Call("v2_from_base64", "", 0, r.status, None)
    /\ wire' = << >>
    /\ UNCHANGED << psbt, p_keys >>
    /\ UNCHANGED << ext_vars, mk_vars, t_vars, b_vars >>

V2ExtractTransaction ==
    /\ psbt2.exists /\ wire = << >>
    /\ p_ret' = Call("v2_extract_transaction", "", 0, "ok",
                     Some(PsbtV2_extract_transaction(psbt2)))
    /\ UNCHANGED << psbt, psbt2, wire, p_keys >>
    /\ UNCHANGED << ext_vars, mk_vars, t_vars, b_vars >>

PsbtInit ==
    /\ TreeNew("testnet") /\ MerkleIdle /\ PsbtIdle /\ ExtIdle
    /\ sb \in ConfiguredBuilders
    /\ t_program = HeldProgram(sb.program)
    /\ sb_ret = ReturnSelf

PsbtNext ==
    \/ ToPsbt \/ ReceiveForeign \/ SignWith \/ Finalize
    \/ ToBase64 \/ FromBase64 \/ ExtractTransaction
    \/ ToV2 \/ V2ToBase64 \/ V2FromBase64 \/ V2ExtractTransaction

SpecPsbt == PsbtInit /\ [][PsbtNext]_vars

-----------------------------------------------------------------------------
(* Specification SpecCodec: the parsers and serializers of Psbt and PsbtV2  *)
(* applied to PsbtV2 objects with arbitrary field values and to serialized  *)
(* PSBTs received from elsewhere: complete, with key types the codec does   *)
(* not know, with a wrong magic, and truncated.                              *)

MaxV2Inputs == 2

MaxV2Outputs == 2

\* a spend of one UTXO of the four-leaf program, by leaf label or key path
CodecSpend(leaf) ==
    [ NewSpendBuilder("tree4", leaf, leaf = None)
        EXCEPT !.utxos = << Utxo1 >>, !.outputs = << Output1 >> ]

\* the finalized PSBT of the 2-of-2 leaf, signed by both keys
FinalizedScriptPsbt ==
    finalize(sign_with(sign_with(to_psbt(CodecSpend(Some("2of2"))), "alice", 0).psbt,
                       "bob", 0).psbt).psbt

\* the key-path PSBT, signed
SignedKeyPsbt == sign_with(to_psbt(CodecSpend(None)), "alice", 0).psbt

\* field values of the inputs and outputs of a PsbtV2: the defaults, and
\* those of a script-path and of a key-path spend
V2InputValues ==
    { PsbtV2Input, to_v2(FinalizedScriptPsbt).inputs[1], to_v2(SignedKeyPsbt).inputs[1] }

V2OutputValues == { PsbtV2Output, to_v2(FinalizedScriptPsbt).outputs[1] }

V2Objects ==
    { [ PsbtV2 EXCEPT !.tx_version = v, !.fallback_locktime = l,
                      !.inputs = ins, !.outputs = outs ] :
        v \in { U32(0, 0), U32(0, 1), U32(0, 2) },
        l \in { U32(0, 0), U32(0, 500) },
        ins \in SeqsOf(V2InputValues, 0, MaxV2Inputs),
        outs \in SeqsOf(V2OutputValues, 0, MaxV2Outputs) }

\* complete serializations
WireV0 == to_base64(FinalizedScriptPsbt)

WireV2 == PsbtV2_to_base64(to_v2(FinalizedScriptPsbt))

\* a key-value pair with a proprietary key type (0xFC)
UnknownPair == KeyValue(<< 252, 1 >>, << 7, 7 >>)

\* the serialized global map of WireV0, without its separator
GlobalV0 == KeyValue(<< PSBT_GLOBAL_UNSIGNED_TX >>, to_bytes_no_witness(FinalizedScriptPsbt.tx))

\* WireV0 and WireV2 with the unknown pair in the global map, in the input
\* map, in the output map
UnknownKeyWiresV0 ==
    { PSBT_MAGIC \o GlobalV0 \o g \o << 0 >>
      \o i \o InputMapBytes(FinalizedScriptPsbt.inputs[1])
      \o o \o << 0 >> :
        g, i, o \in { << >>, UnknownPair } } \ { WireV0 }

UnknownKeyWiresV2 ==
    { PSBT_MAGIC \o g \o V2GlobalMapBytes(to_v2(FinalizedScriptPsbt))
      \o i \o V2TxFieldBytes(to_v2(FinalizedScriptPsbt).inputs[1])
      \o InputMapBytes(to_v2(FinalizedScriptPsbt).inputs[1])
      \o o \o V2OutputMapBytes(to_v2(FinalizedScriptPsbt).outputs[1]) :
        g, i, o \in { << >>, UnknownPair } } \ { WireV2 }

\* w with one of the five magic bytes changed
BadMagicOf(w) == { [ w EXCEPT ![k] = (w[k] + 1) % 256 ] : k \in 1..Len(PSBT_MAGIC) }

\* the truncations of WireV0 that leave the unsigned transaction whole or
\* end before it starts, and all truncations of WireV2
TruncatedWiresV0 ==
    { SubSeq(WireV0, 1, n) :
        n \in (1..(Len(PSBT_MAGIC) + 1))
              \cup ((Len(PSBT_MAGIC) + Len(GlobalV0))..(Len(WireV0) - 1)) }

TruncatedWiresV2 == { SubSeq(WireV2, 1, n) : n \in 1..(Len(WireV2) - 1) }

BadWires ==
    BadMagicOf(WireV0) \cup BadMagicOf(WireV2) \cup TruncatedWiresV0 \cup TruncatedWiresV2

CodecWires == { WireV0, WireV2 } \cup UnknownKeyWiresV0 \cup UnknownKeyWiresV2 \cup BadWires

CodecInit ==
    /\ TreeInit /\ MerkleIdle /\ ExtIdle
    /\ sb = NewSpendBuilder("keyonly", None, TRUE) /\ sb_ret = ReturnSelf
    /\ psbt = NoPsbt /\ p_ret = NoCall /\ p_keys = { }
    /\ \/ wire \in CodecWires /\ psbt2 = NoPsbtV2
       \/ wire = << >> /\ psbt2 \in V2Objects

CodecNext ==
    \/ FromBase64 \/ ToBase64
    \/ V2FromBase64 \/ V2ToBase64 \/ V2ExtractTransaction

SpecCodec == CodecInit /\ [][CodecNext]_vars

-----------------------------------------------------------------------------
(* Specification SpecMerkle: the tapmath functions applied to every list   *)
(* of leaf hashes within the bounds.                                        *)

LeafHashValues == 1..NumLeafHashes

MerkleInit ==
    /\ TreeInit /\ SpendIdle /\ ExtIdle
    /\ mk_pc = "start"
    /\ mk_leaf_hashes \in SeqsOf(LeafHashValues, 1, MaxLeaves)
    /\ mk_index = 0
    /\ mk_root = RAISED
    /\ mk_tree_root = RAISED
    /\ mk_proof = << >>
    /\ mk_key = "alice"
    /\ mk_is_odd = FALSE
    /\ mk_cb = << >>

\* the tapmath compile path: merkle_root = compute_merkle_root(leaf_hashes)
ComputeMerkleRoot ==
    /\ mk_pc = "start"
    /\ mk_root' = compute_merkle_root(mk_leaf_hashes)
    /\ mk_pc' = "root"
    /\ UNCHANGED << mk_leaf_hashes, mk_index, mk_tree_root, mk_proof, mk_key, mk_is_odd, mk_cb >>

\* the nested-list compile path: tree = _build_balanced_tree(scripts), and
\* the address commits to the root of that tree; script i has leaf hash
\* mk_leaf_hashes[i]
BuildBalancedTree ==
    /\ mk_pc = "root"
    /\ mk_tree_root' =
           TreeMerkleRoot(_build_balanced_tree([ i \in 1..Len(mk_leaf_hashes) |-> i ]),
                          mk_leaf_hashes)
    /\ mk_pc' = "tree"
    /\ UNCHANGED << mk_leaf_hashes, mk_index, mk_root, mk_proof, mk_key, mk_is_odd, mk_cb >>

ComputeMerkleProof ==
    /\ mk_pc = "tree"
    /\ \E i \in 0..(Len(mk_leaf_hashes) - 1) :
          /\ mk_index' = i
          /\ mk_proof' = compute_merkle_proof(mk_leaf_hashes, i)
    /\ mk_pc' = "proof"
    /\ UNCHANGED << mk_leaf_hashes, mk_root, mk_tree_root, mk_key, mk_is_odd, mk_cb >>

ComputeControlBlock ==
    /\ mk_pc = "proof"
    /\ \E k \in Keys, is_odd \in BOOLEAN :
          /\ mk_key' = k
          /\ mk_is_odd' = is_odd
          /\ mk_cb' = compute_control_block(xonly(k), mk_leaf_hashes, mk_index, is_odd)
    /\ mk_pc' = "cb"
    /\ UNCHANGED << mk_leaf_hashes, mk_index, mk_root, mk_tree_root, mk_proof >>

MerkleNext ==
    /\ \/ ComputeMerkleRoot
       \/ BuildBalancedTree
       \/ ComputeMerkleProof
       \/ ComputeControlBlock
    /\ UNCHANGED << t_vars, b_vars, p_vars, ext_vars >>

SpecMerkle == MerkleInit /\ [][MerkleNext]_vars

-----------------------------------------------------------------------------
(* Claims checked under SpecMerkle *)

RECURSIVE BalancedSplitRoot(_)
\* the balanced recursive split of the claim: one leaf is its own root,
\* otherwise mid = L / 2 and the two halves are combined by tapbranch_hash
BalancedSplitRoot(hs) ==
    IF Len(hs) = 1 THEN hs[1]
    ELSE LET mid == Len(hs) \div 2
         IN  tapbranch_hash(BalancedSplitRoot(SubSeq(hs, 1, mid)),
                            BalancedSplitRoot(SubSeq(hs, mid + 1, Len(hs))))

\* C2: on both compile paths the committed Merkle root is the balanced
\* recursive split of the ordered leaf hashes, so the tapmath path
\* (compute_merkle_root) and the nested-list path (_build_balanced_tree)
\* give the same root.
C2_BothPathsBalancedSplit ==
    /\ mk_pc \in { "root", "tree", "proof", "cb" }
          => mk_root = BalancedSplitRoot(mk_leaf_hashes)
    /\ mk_pc \in { "tree", "proof", "cb" }
          => /\ mk_tree_root = BalancedSplitRoot(mk_leaf_hashes)
             /\ mk_tree_root = mk_root

RECURSIVE FoldProof(_, _, _)
\* re-apply tapbranch_hash along a proof; the running hash is given as the
\* left argument when cur_left, as the right argument otherwise
FoldProof(cur, proof, cur_left) ==
    IF proof = << >> THEN cur
    ELSE FoldProof(IF cur_left THEN tapbranch_hash(cur, Head(proof))
                   ELSE tapbranch_hash(Head(proof), cur),
                   Tail(proof), cur_left)

\* C3: combining leaf_hashes[i] with the elements of
\* compute_merkle_proof(leaf_hashes, i) in order yields
\* compute_merkle_root(leaf_hashes), whichever side the sibling is put on.
C3_ProofReconstructsRoot ==
    mk_pc \in { "proof", "cb" } =>
        /\ FoldProof(mk_leaf_hashes[mk_index + 1], mk_proof, TRUE) = mk_root
        /\ FoldProof(mk_leaf_hashes[mk_index + 1], mk_proof, FALSE) = mk_root

\* C3 witness: a proof of three siblings for a right child among five
\* pairwise different neighbours
C3_Witness ==
    /\ mk_pc = "proof"
    /\ Len(mk_leaf_hashes) = 5
    /\ mk_index = 3
    /\ Len(mk_proof) = 3
    /\ mk_leaf_hashes[3] # mk_leaf_hashes[4]
    /\ mk_leaf_hashes[1] # mk_leaf_hashes[2]

\* the shape of the tree compute_merkle_root builds over leaf positions
ShapeNext(level) ==
    [ k \in 1..((Len(level) + 1) \div 2) |->
        IF 2 * k <= Len(level)
        THEN [ kind |-> "list", left |-> level[2 * k - 1], right |-> level[2 * k] ]
        ELSE level[2 * k - 1] ]

RECURSIVE ShapeLoop(_)
ShapeLoop(level) == IF Len(level) > 1 THEN ShapeLoop(ShapeNext(level)) ELSE level[1]

LevelTreeShape(n) == ShapeLoop([ i \in 1..n |-> [ kind |-> "script", script |-> i ] ])

\* C4: the control block is version_byte || internal key || proof, with
\* version_byte & 0xFE = 0xC0, low bit the parity, bytes 1..32 the internal
\* key and length 33 + 32 * depth(i); a single leaf gives exactly 33 bytes.
C4_ControlBlockFormat ==
    mk_pc = "cb" =>
        /\ BitAnd(mk_cb[1], 254) = 192
        /\ mk_cb[1] % 2 = (IF mk_is_odd THEN 1 ELSE 0)
        /\ SubSeq(mk_cb, 2, 33) = xonly(mk_key)
        /\ Len(mk_cb) = 33 + 32 * DepthIn(LevelTreeShape(Len(mk_leaf_hashes)), mk_index + 1)
        /\ SubSeq(mk_cb, 34, Len(mk_cb)) = Concat([ i \in 1..Len(mk_proof) |-> Bytes32(mk_proof[i]) ])
        /\ Len(mk_leaf_hashes) = 1 => Len(mk_cb) = 33

\* C4 witness: an odd-parity control block for a leaf at depth 3, and the
\* promoted fifth leaf at depth 1
C4_Witness ==
    /\ mk_pc = "cb"
    /\ mk_is_odd
    /\ Len(mk_leaf_hashes) = 5
    /\ mk_index = 1
    /\ Len(mk_cb) = 129

-----------------------------------------------------------------------------
(* C1 *)

\* the labels of a leaf list are pairwise distinct
DistinctLabels(leaves) ==
    \A i, j \in 1..Len(leaves) : leaves[i].label = leaves[j].label => i = j

\* C1: build() yields a TaprootProgram only for a tree whose leaves carry
\* pairwise distinct labels (explicit or auto-generated); with a repeated label
\* it raises BuildError and no program exists.
C1_DuplicateLabelsRejected ==
    t_result.status = "program" => DistinctLabels(t_result.raw_leaves)

-----------------------------------------------------------------------------
(* Claims about spends and PSBTs *)

\* the signature part of a script-path witness: everything before the script
\* and the control block
SigPart(witness) == SubSeq(witness, 1, Len(witness) - 2)

\* the keys that have a TAP_SCRIPT_SIG entry for the leaf script of an input
SignersOf(inp) ==
    { k \in Keys : \E e \in 1..Len(inp.tap_script_sigs) :
                      inp.tap_script_sigs[e].key
                        = << xonly(k), Bytes32(tapleaf_hash(inp.tap_leaf_script[1][1])) >> }

\* one signature per signer whose pubkey is declared, Pn first down to P1
SigsPnToP1(pubkeys, signers, tx, input_idx, spks, amounts, leaf_hash) ==
    Concat([ i \in 1..Len(pubkeys) |->
               IF \E k \in signers : xonly(k) = pubkeys[Len(pubkeys) + 1 - i]
               THEN << sign_taproot_input(
                         CHOOSE k \in signers : xonly(k) = pubkeys[Len(pubkeys) + 1 - i],
                         tx, input_idx, spks, amounts, TRUE, leaf_hash, FALSE, 0) >>
               ELSE << >> ])

\* the builders that differ from spend only in the order (and repetition) of
\* the keys passed to sign(), for a given set of signers
SignedBy(spend, signers) ==
    { [ spend EXCEPT !.signatures = keys ] :
        keys \in { ks \in SeqsOf(Keys, 1, Cardinality(Keys)) : Range(ks) = signers } }

\* C5 on one input: the witness of the finalized PSBT and of every direct
\* build by the same signers carry the expected signature part
MultisigOrderAt(spend, self, i) ==
    /\ SigPart(self.tx.witnesses[i])
         = SigsPnToP1(LeafOf(spend).params.pubkeys, SignersOf(self.inputs[i]), self.tx, i - 1,
                      SpentScripts(spend), SpentAmounts(spend),
                      tapleaf_hash(self.inputs[i].tap_leaf_script[1][1]))
    /\ \A b \in SignedBy(spend, SignersOf(self.inputs[i])) :
          SpendBuilder_build(b).status = "Transaction"
            => SigPart(SpendBuilder_build(b).tx.witnesses[i]) = SigPart(self.tx.witnesses[i])

\* C5: for a MULTISIG leaf, whatever the order in which the signers were
\* supplied, the signature part of the witness holds exactly one signature
\* per signer whose pubkey is declared, ordered Pn first down to P1 with
\* non-signers skipped, on the PSBT path (finalize) and on the direct path
\* (sign().build()) alike.
C5_MultisigWitnessOrder ==
    (/\ p_ret.op = "finalize" /\ p_ret.outcome = "ok"
     /\ ~sb.is_keypath /\ LeafOf(sb).script_type = "MULTISIG")
    => \A i \in 1..Len(psbt.inputs) : MultisigOrderAt(sb, psbt, i)

\* a finalized 2-of-3 spend signed by alice, then carol: bob is skipped and
\* carol's signature comes first
C5_Witness ==
    /\ p_ret.op = "finalize" /\ p_ret.outcome = "ok"
    /\ sb.leaf = Some("2of3")
    /\ Len(psbt.inputs[1].tap_script_sigs) = 2
    /\ psbt.inputs[1].tap_script_sigs[1].key[1] = xonly("alice")
    /\ psbt.inputs[1].tap_script_sigs[2].key[1] = xonly("carol")
    /\ SigPart(psbt.tx.witnesses[1])
         = << psbt.inputs[1].tap_script_sigs[2].value, psbt.inputs[1].tap_script_sigs[1].value >>
    /\ \E b \in SignedBy(sb, { "alice", "carol" }) :
          SpendBuilder_build(b).status = "Transaction"

\* the nSequence the policy gives every input of a spend
PolicySequence(spend) ==
    IF spend.sequence # None THEN spend.sequence[1]
    ELSE IF ~spend.is_keypath /\ LeafOf(spend).script_type = "CSV_TIMELOCK"
    THEN U32(0, LeafOf(spend).params.sequence_value)
    ELSE U32(65535, 65533)

AllSequencesAre(tx, value) ==
    \A i \in 1..Len(tx.inputs) : unpack_I(tx.inputs[i].sequence) = value

\* C6: every input of every transaction build() or to_psbt() produces has
\* the nSequence passed to sequence(), else the CSV leaf's sequence value,
\* else (other script-path leaves and key-path spends) 0xFFFFFFFD.
C6_SequencePolicy ==
    /\ (sb_ret.op = "build" /\ sb_ret.result.status = "Transaction")
         => AllSequencesAre(sb_ret.result.tx, PolicySequence(sb))
    /\ (sb_ret.op = "to_psbt" /\ sb_ret.result.status = "Psbt")
         => AllSequencesAre(sb_ret.result.psbt.tx, PolicySequence(sb))

\* the keys of the direct path: sign(alice, bob), which meets every leaf's
\* demand for signatures
DirectSigners == { << "alice", "bob" >> }

\* the direct path for the same configuration: sign(keys...).build() with
\* the unlock material the leaf asks for
DirectBuild(spend, keys) ==
    SpendBuilder_build([ spend EXCEPT !.signatures = keys,
                                      !.preimage = Some("helloworld"),
                                      !.custom_witness = Some(CustomWitness) ])

SameSkeleton(a, b) ==
    /\ a.version = b.version /\ a.locktime = b.locktime
    /\ a.inputs = b.inputs /\ a.outputs = b.outputs

SameTxid(d, tx) ==
    d.status = "Transaction" => get_txid(d.tx) = get_txid(tx) /\ SameSkeleton(d.tx, tx)

\* C7: the transaction extracted on the PSBT path has the txid of the
\* transaction the direct sign().build() path returns for the same
\* configuration: same version, inputs, nSequence values, outputs, locktime.
C7_PsbtTxidMatchesDirect ==
    p_ret.op = "extract_transaction"
    => \A keys \in DirectSigners : SameTxid(DirectBuild(sb, keys), p_ret.tx[1])

\* the 2-of-2 spend extracted after to_psbt, sign_with, to_base64,
\* from_base64, sign_with, finalize: the object was parsed back before it was
\* finalized with both signatures
C7_Witness ==
    /\ p_ret.op = "extract_transaction"
    /\ sb.leaf = Some("2of2") /\ sb.sequence # None
    /\ psbt.inputs[1]._tapleaf_script_obj = None
    /\ Len(psbt.inputs[1].tap_script_sigs) = 2
    /\ Len(psbt.tx.witnesses) = 1 /\ Len(psbt.tx.witnesses[1]) = 4
    /\ DirectBuild(sb, << "alice", "bob" >>).status = "Transaction"

\* the TAP_SCRIPT_SIG key under which sign_with stores the signature of key
ScriptSigKey(inp, key) ==
    << xonly(key), Bytes32(tapleaf_hash(inp.tap_leaf_script[1][1])) >>

HasEntry(d, k) == \E e \in 1..Len(d) : d[e].key = k

\* dict d2 is dict d1 with the entry for k added or overwritten, nothing else
OnlyEntryWritten(d1, d2, k) ==
    /\ HasEntry(d2, k)
    /\ \A e \in 1..Len(d2) : d2[e].key # k => \E f \in 1..Len(d1) : d1[f] = d2[e]
    /\ \A f \in 1..Len(d1) : d1[f].key # k => \E e \in 1..Len(d2) : d2[e] = d1[f]
    /\ \A e, f \in 1..Len(d2) : d2[e].key = d2[f].key => e = f

\* what a call sign_with(key, i - 1) with the given outcome may change
SignWithFrame(old, new, key, i, outcome) ==
    /\ new.tx = old.tx
    /\ Len(new.inputs) = Len(old.inputs)
    /\ \A j \in 1..Len(old.inputs) : j # i => new.inputs[j] = old.inputs[j]
    /\ outcome = "ValueError" <=> old.inputs[i].witness_utxo = None
    /\ (\A j \in 1..Len(old.inputs) : old.inputs[j].witness_utxo # None) => outcome = "ok"
    /\ outcome # "ok" => new = old
    /\ (outcome = "ok" /\ old.inputs[i].tap_leaf_script # None)
         => /\ new.inputs[i] = [ old.inputs[i] EXCEPT !.tap_script_sigs =
                                   new.inputs[i].tap_script_sigs ]
            /\ OnlyEntryWritten(old.inputs[i].tap_script_sigs, new.inputs[i].tap_script_sigs,
                                ScriptSigKey(old.inputs[i], key))
    /\ (outcome = "ok" /\ old.inputs[i].tap_leaf_script = None)
         => /\ new.inputs[i] = [ old.inputs[i] EXCEPT !.tap_key_sig = new.inputs[i].tap_key_sig ]
            /\ new.inputs[i].tap_key_sig # None

\* C8: sign_with(key, i) changes only input i: with TAP_LEAF_SCRIPT it adds or
\* overwrites exactly the TAP_SCRIPT_SIG entry (xonly(key), leaf hash) and
\* leaves TAP_KEY_SIG alone, otherwise it sets TAP_KEY_SIG and leaves
\* TAP_SCRIPT_SIG alone; the other inputs and the unsigned transaction are
\* unchanged, and a call on an input without witness UTXO raises ValueError
\* and changes nothing (as does every call that raises).
C8_SignWithFrame ==
    [][ p_ret'.op = "sign_with"
          => SignWithFrame(psbt, psbt', p_ret'.key, p_ret'.input_index + 1, p_ret'.outcome)
      ]_vars

\* the second input of a two-input script-path PSBT has just been signed, the
\* first one carries nothing
C8_Witness ==
    /\ p_ret.op = "sign_with" /\ p_ret.outcome = "ok" /\ p_ret.input_index = 1
    /\ Len(psbt.inputs) = 2
    /\ psbt.inputs[2].tap_leaf_script # None
    /\ Len(psbt.inputs[2].tap_script_sigs) = 1
    /\ psbt.inputs[2].tap_script_sigs[1].key = ScriptSigKey(psbt.inputs[2], p_ret.key)
    /\ psbt.inputs[2].tap_key_sig = None
    /\ psbt.inputs[1].tap_script_sigs = << >> /\ psbt.inputs[1].tap_key_sig = None

\* the root a stored TAP_MERKLE_ROOT holds, 0 (empty root) if absent
StoredRoot(inp) ==
    IF inp.tap_merkle_root = None THEN 0
    ELSE DecLE(Reverse(SubSeq(inp.tap_merkle_root[1], 29, 32)))

\* the key-path signature whose tweak comes from the stored fields
SigFromStoredFields(self, key, input_index) ==
    sign_taproot_input(key, self.tx, input_index, WitnessUtxoScripts(self),
                       WitnessUtxoAmounts(self), FALSE, 0, TRUE,
                       StoredRoot(self.inputs[input_index + 1]))

\* C9: a key-path sign_with derives the tweak from the stored
\* TAP_INTERNAL_KEY and TAP_MERKLE_ROOT only, so the TAP_KEY_SIG it stores -
\* also on a PSBT that went through to_base64/from_base64 - is the one that
\* signing the in-memory PSBT returned by to_psbt() stores.
C9_KeyPathTweakFromStoredRoot ==
    (/\ p_ret.op = "sign_with" /\ p_ret.outcome = "ok"
     /\ psbt.inputs[p_ret.input_index + 1].tap_leaf_script = None)
    => /\ psbt.inputs[p_ret.input_index + 1].tap_key_sig
            = sign_with(to_psbt(sb), p_ret.key, p_ret.input_index)
                .psbt.inputs[p_ret.input_index + 1].tap_key_sig
       /\ psbt.inputs[p_ret.input_index + 1].tap_key_sig
            = Some(SigFromStoredFields(psbt, p_ret.key, p_ret.input_index))

\* the TAP_SCRIPT_SIG entries of an input that are recorded for leaf hash lh
EntriesFor(inp, lh) ==
    { e \in 1..Len(inp.tap_script_sigs) : inp.tap_script_sigs[e].key[2] = lh }

\* no two TAP_SCRIPT_SIG entries of an input share a key, and an input has,
\* for its leaf, no more entries than distinct keys were signed with
EntriesBounded ==
    psbt.exists
    => \A i \in 1..Len(psbt.inputs) :
          /\ \A e, f \in 1..Len(psbt.inputs[i].tap_script_sigs) :
                psbt.inputs[i].tap_script_sigs[e].key = psbt.inputs[i].tap_script_sigs[f].key
                  => e = f
          /\ \A e \in 1..Len(psbt.inputs[i].tap_script_sigs) :
                Cardinality(EntriesFor(psbt.inputs[i], psbt.inputs[i].tap_script_sigs[e].key[2]))
                  <= Cardinality(p_keys)

\* a repeated script-path sign_with leaves the TAP_SCRIPT_SIG dict as it was
ResignChangesNothing(old, new, key, i) ==
    (old.inputs[i].tap_leaf_script # None
       /\ HasEntry(old.inputs[i].tap_script_sigs, ScriptSigKey(old.inputs[i], key)))
    => new.inputs[i].tap_script_sigs = old.inputs[i].tap_script_sigs

\* C10: script-path signing is idempotent: signing an input again with the
\* same key leaves exactly one TAP_SCRIPT_SIG entry for (xonly(key), leaf
\* hash), with the signature of the first call; the number of entries never
\* exceeds the number of distinct signing keys used.
C10_ScriptSignIdempotent ==
    [][ /\ (p_ret'.op = "sign_with" /\ p_ret'.outcome = "ok")
            => ResignChangesNothing(psbt, psbt', p_ret'.key, p_ret'.input_index + 1)
        /\ EntriesBounded'
      ]_vars

\* one key has signed the same script-path input twice
C10_Witness ==
    /\ p_ret.op = "sign_with" /\ p_ret.outcome = "ok" /\ p_ret.repeat
    /\ psbt.inputs[p_ret.input_index + 1].tap_leaf_script # None
    /\ p_keys = { p_ret.key }
    /\ Len(psbt.inputs[p_ret.input_index + 1].tap_script_sigs) = 1
    /\ psbt.inputs[p_ret.input_index + 1].tap_script_sigs[1].key
         = ScriptSigKey(psbt.inputs[p_ret.input_index + 1], p_ret.key)

\* finalize() has something to build the witness of an input from: a
\* TAP_KEY_SIG, or a TAP_LEAF_SCRIPT with a TAP_SCRIPT_SIG for its leaf hash
HasKeySig(inp) == inp.tap_key_sig # None /\ inp.tap_key_sig[1] # << >>

HasMatchingScriptSig(inp) ==
    /\ inp.tap_leaf_script # None
    /\ EntriesFor(inp, Bytes32(tapleaf_hash(inp.tap_leaf_script[1][1]))) # { }

\* the witness of input i in a transaction, empty if it has none
WitnessAt(tx, i) == IF i <= Len(tx.witnesses) THEN tx.witnesses[i] ELSE << >>

\* what one finalize() call does to input i
FinalizeCaseAt(old, new, i, outcome) ==
    /\ (outcome = "ok" /\ HasKeySig(old.inputs[i]))
         => new.tx.witnesses[i] = << old.inputs[i].tap_key_sig[1] >>
    /\ (~HasKeySig(old.inputs[i]) /\ ~HasMatchingScriptSig(old.inputs[i]))
         => /\ outcome # "ok"
            /\ WitnessAt(new.tx, i) = WitnessAt(old.tx, i)
            /\ new.inputs[i] = old.inputs[i]

\* C11: finalize() gives an input with TAP_KEY_SIG the witness [sig]; an
\* input that has neither a TAP_KEY_SIG nor a TAP_LEAF_SCRIPT with a
\* TAP_SCRIPT_SIG recorded for the hash of that script - also one whose only
\* entries are recorded for another leaf hash - makes the call fail and gets
\* no witness.
C11_FinalizeCases ==
    [][ p_ret'.op = "finalize"
          => \A i \in 1..Len(psbt.inputs) : FinalizeCaseAt(psbt, psbt', i, p_ret'.outcome)
      ]_vars

\* C12: finalize() fails for an input without TAP_KEY_SIG whose signature
\* set is incomplete for its leaf, so every witness it produces for a
\* MULTISIG(k, [P1..Pn]) leaf carries at least k signatures.
C12_FinalizeNeedsThreshold ==
    (/\ p_ret.op = "finalize" /\ p_ret.outcome = "ok"
     /\ ~sb.is_keypath /\ LeafOf(sb).script_type = "MULTISIG")
    => \A i \in 1..Len(psbt.inputs) :
          ~HasKeySig(psbt.inputs[i])
            => Len(SigPart(psbt.tx.witnesses[i])) >= LeafOf(sb).params.threshold

\* a Psbt as to_psbt, sign_with, finalize and to_base64/from_base64 make it:
\* every input has its witness UTXO and signatures for its own leaf only
OwnPsbt ==
    /\ psbt.exists
    /\ \A i \in 1..Len(psbt.inputs) :
          /\ psbt.inputs[i].witness_utxo # None
          /\ \A e \in 1..Len(psbt.inputs[i].tap_script_sigs) :
                psbt.inputs[i].tap_script_sigs[e].key[2]
                  = Bytes32(tapleaf_hash(psbt.inputs[i].tap_leaf_script[1][1]))

\* C13: in every such Psbt state, for every input (key-path or script-path),
\* the input has been finalized if and only if FINAL_SCRIPT_WITNESS is set,
\* and the witness of the input in the transaction extract_transaction()
\* returns is then the stored FINAL_SCRIPT_WITNESS.
C13_FinalWitnessIffFinalized ==
    OwnPsbt
    => \A i \in 1..Len(psbt.inputs) :
          /\ (p_ret.op = "finalize" /\ p_ret.outcome = "ok")
               => psbt.inputs[i].final_script_witness # None
          /\ psbt.inputs[i].final_script_witness # None
               => WitnessAt(extract_transaction(psbt), i) = psbt.inputs[i].final_script_witness[1]

\* two transactions agree in version, locktime, every input's previous
\* txid, output index and nSequence, every output's amount and script, and
\* every input's witness
SameTransaction(a, b) ==
    /\ SameSkeleton(a, b)
    /\ \A i \in 1..Len(a.inputs) : WitnessAt(a, i) = WitnessAt(b, i)

\* C14: for a finalized v0 Psbt p, the transaction
\* p.to_v2().extract_transaction() assembles from the v2 maps - also after a
\* PsbtV2 to_base64/from_base64 round trip - equals p.extract_transaction().
C14_V2ExtractMatchesV0 ==
    (p_ret.op = "v2_extract_transaction" /\ psbt.exists)
    => SameTransaction(p_ret.tx[1], extract_transaction(psbt))

\* the fields of an input that a PSBT carries
SameInputFields(a, b) ==
    /\ a.witness_utxo = b.witness_utxo
    /\ a.tap_internal_key = b.tap_internal_key
    /\ a.tap_merkle_root = b.tap_merkle_root
    /\ a.tap_leaf_script = b.tap_leaf_script
    /\ a.tap_key_sig = b.tap_key_sig
    /\ a.tap_script_sigs = b.tap_script_sigs
    /\ a.final_script_witness = b.final_script_witness

\* Psbt q carries what Psbt p carries: the unsigned transaction and the
\* fields of every input
SamePsbtFields(p, q) ==
    /\ SameSkeleton(p.tx, q.tx)
    /\ Len(q.inputs) = Len(p.inputs)
    /\ \A i \in 1..Len(p.inputs) : SameInputFields(p.inputs[i], q.inputs[i])

\* C15: for a Psbt p made by to_psbt, sign_with and finalize,
\* Psbt.from_base64(p.to_base64()) has the same per-input fields and the same
\* unsigned transaction as p, and serializes to exactly p.to_base64().
C15_V0RoundTrip ==
    [][ (p_ret'.op = "from_base64" /\ psbt.exists /\ wire = to_base64(psbt))
          => /\ p_ret'.outcome = "Psbt"
             /\ SamePsbtFields(psbt, psbt')
             /\ to_base64(psbt') = wire
      ]_vars

\* a finalized 2-of-3 PSBT with two signatures on each of its two inputs has
\* been serialized and parsed back
C15_Witness ==
    /\ p_ret.op = "from_base64" /\ p_ret.outcome = "Psbt"
    /\ Len(psbt.inputs) = 2
    /\ \A i \in 1..2 :
          /\ Len(psbt.inputs[i].tap_script_sigs) = 2
          /\ psbt.inputs[i].final_script_witness # None
          /\ Len(psbt.inputs[i].final_script_witness[1]) = 4
          /\ psbt.inputs[i].witness_utxo # None
          /\ psbt.inputs[i].tap_leaf_script # None
          /\ psbt.inputs[i]._tapleaf_script_obj = None

\* the keys of the key-value pairs of the map that starts at offset
RECURSIVE KeysFrom(_, _)
KeysFrom(raw, offset) ==
    LET r == _read_key_value(raw, offset)
    IN  IF r.kv = None \/ r.err # NoError THEN << >>
        ELSE << r.kv[1][1] >> \o KeysFrom(raw, r.offset)

\* how often the global map of raw holds a key of one byte kt
GlobalKeyCount(raw, kt) ==
    Cardinality({ i \in DOMAIN KeysFrom(raw, Len(PSBT_MAGIC)) :
                    KeysFrom(raw, Len(PSBT_MAGIC))[i] = << kt >> })

SameV2InputFields(a, b) ==
    /\ SameInputFields(a, b)
    /\ a.previous_txid = b.previous_txid
    /\ a.output_index = b.output_index
    /\ a.sequence = b.sequence

\* PsbtV2 q carries the field values of PsbtV2 p
SameV2Fields(p, q) ==
    /\ q.tx_version = p.tx_version
    /\ q.fallback_locktime = p.fallback_locktime
    /\ Len(q.inputs) = Len(p.inputs)
    /\ \A i \in 1..Len(p.inputs) : SameV2InputFields(p.inputs[i], q.inputs[i])
    /\ q.outputs = p.outputs

\* C16: for a PsbtV2 p, PsbtV2.from_base64(p.to_base64()) succeeds, carries
\* the field values of p and serializes to p.to_base64() again, and the
\* global map holds TX_VERSION, FALLBACK_LOCKTIME, INPUT_COUNT and
\* OUTPUT_COUNT exactly once each.
C16_V2RoundTrip ==
    [][ (p_ret'.op = "v2_from_base64" /\ psbt2.exists /\ wire = PsbtV2_to_base64(psbt2))
        => /\ p_ret'.outcome = "PsbtV2"
           /\ SameV2Fields(psbt2, psbt2')
           /\ PsbtV2_to_base64(psbt2') = wire
           /\ \A kt \in { PSBT_GLOBAL_TX_VERSION, PSBT_GLOBAL_FALLBACK_LOCKTIME,
                          PSBT_GLOBAL_INPUT_COUNT, PSBT_GLOBAL_OUTPUT_COUNT } :
                GlobalKeyCount(wire, kt) = 1 ]_vars

\* the byte string part occurs in the byte string data
Contains(data, part) ==
    \E a \in 0..(Len(data) - Len(part)) : Slice(data, a, a + Len(part)) = part

\* C17: a key-value pair with a key type the codec does not recognize, in
\* the global map, an input map or an output map of a parsed PSBT, is
\* re-emitted by to_base64() of the parsed object.
C17_UnknownKeysPreserved ==
    [][ /\ (p_ret'.op = "from_base64" /\ wire \in UnknownKeyWiresV0
            /\ p_ret'.outcome = "Psbt")
           => Contains(to_base64(psbt'), UnknownPair)
        /\ (p_ret'.op = "v2_from_base64" /\ wire \in UnknownKeyWiresV2
            /\ p_ret'.outcome = "PsbtV2")
           => Contains(PsbtV2_to_base64(psbt2'), UnknownPair) ]_vars

\* C18: from_base64 of Psbt and of PsbtV2 return no PSBT object for an input
\* whose first five bytes are not the magic, or that is truncated.
C18_BadInputRejected ==
    [][ (p_ret'.op \in { "from_base64", "v2_from_base64" } /\ wire \in BadWires)
        => p_ret'.outcome \notin { "Psbt", "PsbtV2" } ]_vars

\* the unlock material the spend kind of the builder needs is absent
UnlockMaterialAbsent(spend) ==
    IF spend.is_keypath THEN spend.signatures = << >>
    ELSE \/ LeafOf(spend).script_type = "HASHLOCK" /\ spend.preimage = None
         \/ LeafOf(spend).script_type \in { "CHECKSIG", "CSV_TIMELOCK" }
            /\ spend.signatures = << >>
         \/ LeafOf(spend).script_type = "CUSTOM" /\ spend.custom_witness = None

CoveredPubkeys(spend) ==
    { pk \in Range(LeafOf(spend).params.pubkeys) :
        \E j \in 1..Len(spend.signatures) : xonly(spend.signatures[j]) = pk }

\* the signatures of a script-path witness: all but the script and the
\* control block
WitnessSignatures(witness) == SubSeq(witness, 1, Len(witness) - 2)

\* C20: build() of a MULTISIG(k, pubkeys) script-path spend returns a
\* Transaction only if the keys passed to sign() cover at least k distinct
\* declared pubkeys, so that every witness carries at least k signatures.
C20_MultisigBuildNeedsThreshold ==
    (/\ sb_ret.op = "build" /\ sb_ret.result.status = "Transaction"
     /\ ~sb.is_keypath /\ LeafOf(sb).script_type = "MULTISIG")
    => /\ Cardinality(CoveredPubkeys(sb)) >= LeafOf(sb).params.threshold
       /\ \A i \in 1..Len(sb_ret.result.tx.witnesses) :
            Len(WitnessSignatures(sb_ret.result.tx.witnesses[i]))
              >= LeafOf(sb).params.threshold

\* C21: build() fails when the output amounts sum to more than the UTXO
\* amounts, so that every Transaction it returns has a fee of at least 0.
C21_NoNegativeFee ==
    (sb_ret.op = "build" /\ sb_ret.result.status = "Transaction")
    => fee(sb_ret.result) >= 0

\* C22: multisig(k, keys) adds a leaf only when 1 <= k <= len(keys); the
\* tree never holds a MULTISIG leaf with another threshold.
C22_MultisigThresholdRange ==
    \A i \in 1..Len(t_leaves) :
        t_leaves[i].script_type = "MULTISIG"
        => /\ 1 <= t_leaves[i].params.threshold
           /\ t_leaves[i].params.threshold <= Len(t_leaves[i].params.pubkeys)

\* item is a signature of one of the keys
IsSignature(item) == item # << >> /\ \E k \in Keys : item[1] = KeyTag(k)

\* item is an unlock item of the kind of the spent leaf: the preimage of a
\* HASHLOCK, a signature for a CHECKSIG, CSV_TIMELOCK or MULTISIG script;
\* for a CUSTOM script, which may check signatures too, a signature or an
\* element of the witness stack given for it
UnlockItemOfKind(spend, item) ==
    CASE LeafOf(spend).script_type = "HASHLOCK" ->
            sha256("helloworld") = LeafOf(spend).params.preimage_hash
            /\ item = Utf8("helloworld")
      [] LeafOf(spend).script_type = "CUSTOM" ->
            \/ IsSignature(item)
            \/ spend.custom_witness # None /\ item \in Range(spend.custom_witness[1])
      [] OTHER -> IsSignature(item)

\* a script-path witness: unlock items of the kind, then the script of the
\* spent leaf and the control block of that leaf
ScriptPathWitness(spend, witness) ==
    /\ Len(witness) >= 2
    /\ witness[Len(witness) - 1]
         = Programs[spend.program].scripts[LeafOf(spend).index + 1]
    /\ witness[Len(witness)] = control_block(Programs[spend.program], LeafOf(spend).index)
    /\ \A k \in 1..(Len(witness) - 2) : UnlockItemOfKind(spend, witness[k])

\* a key-path witness: one item, a signature
KeyPathWitness(witness) == Len(witness) = 1 /\ IsSignature(witness[1])

\* the witnesses of a transaction of the spend: one per input, each of the
\* form of its path
WitnessesOfSpend(spend, tx) ==
    /\ Len(tx.witnesses) = Len(tx.inputs)
    /\ \A i \in 1..Len(tx.witnesses) :
          IF spend.is_keypath THEN KeyPathWitness(tx.witnesses[i])
          ELSE ScriptPathWitness(spend, tx.witnesses[i])

\* the spend with everything given that a direct build() needs
DirectSpend(spend, keys) ==
    [ spend EXCEPT !.signatures = keys,
                   !.preimage = Some("helloworld"),
                   !.custom_witness = Some(CustomWitness) ]

\* what build() returns for the spend is no Transaction, or one with
\* witnesses of the form of its path
BuiltWitnesses(spend, result) ==
    result.status = "Transaction" => WitnessesOfSpend(spend, result.tx)

\* C23: a built or finalized transaction has one witness per input; a
\* script-path witness ends with the script of the spent leaf and the control
\* block of that leaf, preceded only by unlock items of the kind of the leaf;
\* a key-path witness is exactly the signature.
C23_WitnessShape ==
    /\ (p_ret.op = "to_psbt")
       => \A keys \in SeqsOf(Keys, 1, MaxSigners) :
             BuiltWitnesses(DirectSpend(sb, keys), SpendBuilder_build(DirectSpend(sb, keys)))
    /\ (p_ret.op = "finalize" /\ p_ret.outcome = "ok")
       => WitnessesOfSpend(sb, psbt.tx)

\* a finalized script-path spend of two UTXOs: both witnesses hold two
\* signatures, the script and the control block
C23_Witness ==
    /\ p_ret.op = "finalize" /\ p_ret.outcome = "ok"
    /\ sb.leaf = Some("2of3") /\ Len(psbt.tx.inputs) = 2
    /\ Len(psbt.tx.witnesses[1]) = 4 /\ Len(psbt.tx.witnesses[2]) = 4
    /\ psbt.tx.witnesses[1] # psbt.tx.witnesses[2]
    /\ SpendBuilder_build(DirectSpend(sb, << "alice", "bob" >>)).status = "Transaction"

\* C24: every LeafDescriptor of a built program carries the BIP-341 tapleaf
\* hash of its compiled script, never an empty value.
C24_DescriptorTapleafHash ==
    t_result.status = "program"
    => \A l \in DOMAIN t_result.program.leaf_descriptors :
          /\ t_result.program.leaf_descriptors[l].tapleaf_hash # << >>
          /\ t_result.program.leaf_descriptors[l].tapleaf_hash
               = Bytes32(tapleaf_hash(t_result.program.leaf_descriptors[l].script_hex))

\* labels and indices asked of leaf() beyond those a tree of the model has
AskedLabels == ExplicitLabels \cup { "_leaf0", "_leaf1", "_leaf2", "nolabel" }

AskedIndices == (0 - 1)..(MaxTreeLeaves + 1)

\* the program built from n added leaves lists and finds each of them
ProgramListsLeaves(program, raw_leaves) ==
    /\ num_leaves(program) = Len(raw_leaves)
    /\ TaprootProgram_leaves(program) = [ i \in 1..Len(raw_leaves) |-> raw_leaves[i].label ]
    /\ \A i \in AskedIndices :
          IF i \in 0..(Len(raw_leaves) - 1)
          THEN /\ TaprootProgram_leaf(program, i, TRUE).status = "leaf"
               /\ TaprootProgram_leaf(program, i, TRUE).descriptor.index = i
          ELSE TaprootProgram_leaf(program, i, TRUE).status = "KeyError"
    /\ \A l \in AskedLabels :
          IF \E i \in 1..Len(raw_leaves) : raw_leaves[i].label = l
          THEN /\ TaprootProgram_leaf(program, l, FALSE).status = "leaf"
               /\ \A i \in 1..Len(raw_leaves) :
                     raw_leaves[i].label = l
                     => TaprootProgram_leaf(program, l, FALSE).descriptor = DescriptorOf(raw_leaves[i])
          ELSE TaprootProgram_leaf(program, l, FALSE).status = "KeyError"

\* C25: after n leaf-adding calls the built program has num_leaves = n, lists
\* the labels in declaration order, finds leaf i at index i and each leaf
\* under its label, and raises KeyError for every other label or index.
C25_LeafListing ==
    t_result.status = "program" => ProgramListsLeaves(t_result.program, t_result.raw_leaves)

\* the human-readable part of the addresses of a network
HrpOf(network) ==
    CASE network = "mainnet" -> "bc"
      [] network \in { "testnet", "signet" } -> "tb"
      [] network = "regtest" -> "bcrt"

\* C26: the address of a program built by TapTree(internal_key, network=N)
\* has the human-readable part of N.
C26_AddressHrp ==
    t_result.status = "program"
    => t_result.program.address.hrp = HrpOf(t_result.program.network)


\* what a caller can read from a TaprootProgram: address, leaves, num_leaves,
\* the leaf descriptors, the compiled scripts and every leaf's control block
Observables(held) ==
    [ address |-> held.program.address,
      leaves |-> TaprootProgram_leaves(held.program),
      num_leaves |-> num_leaves(held.program),
      leaf_descriptors |-> held.program.leaf_descriptors,
      leaf_by_index |-> held.program.leaf_by_index,
      scripts |-> held.program.scripts,
      control_blocks |-> [ i \in 1..Len(held.program.scripts) |->
                             control_block(held.program, i - 1) ] ]

\* C27: once build() has returned a TaprootProgram, no later step (more leaves
\* on the same TapTree, another build(), any SpendBuilder method, signing or
\* finalizing a PSBT) changes the program's address, label list, num_leaves,
\* leaf descriptors, scripts or control blocks
C27_ProgramFrame ==
    [][ t_program.exists
        => /\ t_program'.exists
           /\ Observables(t_program') = Observables(t_program) ]_vars

\* a program was built, and its TapTree has since grown and been built again
C27_Witness ==
    /\ t_program.exists
    /\ Len(t_program._raw_leaves) > Len(t_program.program.scripts)
    /\ t_result.status = "program"
    /\ t_result.program # t_program.program

-----------------------------------------------------------------------------
(* Specification SpecBroadcast: one call of broadcast_parallel, its two     *)
(* provider calls running on the worker threads of the executor and ending  *)
(* at any moment, in any order and with any outcome.                        *)

\* the raw transactions broadcast
TxHexes == { "tx1", "tx2" }

\* the id of a transaction, which a provider answers with when it accepts it
Txid(tx_hex) == IF tx_hex = "tx1" THEN "txid1" ELSE "txid2"

\* how BlockstreamProvider.broadcast(tx_hex) can end: the 64-character id of
\* the response, or ValueError
BlockstreamProvider_broadcast(tx_hex) ==
    { [ kind |-> "txid", value |-> Txid(tx_hex) ],
      [ kind |-> "raise", value |-> "ValueError" ] }

\* how MempoolProvider.broadcast(tx_hex) can end, by the Provider contract:
\* the transaction id if successful, None otherwise, or an exception
MempoolProvider_broadcast(tx_hex) ==
    { [ kind |-> "txid", value |-> Txid(tx_hex) ],
      [ kind |-> "none", value |-> "" ],
      [ kind |-> "raise", value |-> "Exception" ] }

\* _try_broadcast(provider, tx_hex)
_try_broadcast(provider, tx_hex) ==
    IF provider = "blockstream" THEN BlockstreamProvider_broadcast(tx_hex)
    ELSE MempoolProvider_broadcast(tx_hex)

ProviderSet == { Providers[i] : i \in 1..Len(Providers) }

\* the futures that are done
FinishedFutures == { p \in ProviderSet : bp_futures[p].state = "finished" }

\* every order in which the members of a set can be listed
OrdersOf(set) ==
    { order \in SeqsOf(set, Cardinality(set), Cardinality(set)) :
        \A p \in set : \E i \in 1..Len(order) : order[i] = p }

\* executor.submit(_try_broadcast, p, tx_hex) for the next provider of the list
Submit ==
    /\ bp_pc = "submit"
    /\ LET i == CHOOSE i \in 1..Len(Providers) :
                    /\ bp_futures[Providers[i]].state = "unsubmitted"
                    /\ \A j \in 1..(i - 1) : bp_futures[Providers[j]].state # "unsubmitted"
       IN  /\ bp_futures' = [ bp_futures EXCEPT ![Providers[i]].state = "running" ]
           /\ bp_pc' = IF i = Len(Providers) THEN "as_completed" ELSE "submit"
    /\ UNCHANGED << bp_tx_hex, bp_completed, bp_queue, bp_pending, bp_result >>
    /\ UNCHANGED << mk_vars, t_vars, b_vars, p_vars, f_vars >>

\* a worker thread: _try_broadcast(provider, tx_hex) ends and the future is
\* set; a waiter installed by as_completed() is told
Complete ==
    \E p \in ProviderSet :
      \E outcome \in _try_broadcast(p, bp_tx_hex) :
        /\ bp_futures[p].state = "running"
        /\ bp_futures' = [ bp_futures EXCEPT ![p] = [ state |-> "finished",
                                                      outcome |-> outcome ] ]
        /\ bp_completed' = Append(bp_completed, p)
        /\ IF p \in bp_pending
           THEN /\ bp_queue' = Append(bp_queue, p)
                /\ bp_pending' = bp_pending \ { p }
           ELSE UNCHANGED << bp_queue, bp_pending >>
        /\ UNCHANGED << bp_pc, bp_tx_hex, bp_result >>
        /\ UNCHANGED << mk_vars, t_vars, b_vars, p_vars, f_vars >>

\* as_completed(futures) starts: the futures already done come first, taken
\* from a set, so in no particular order; the others are waited for
AsCompleted ==
    /\ bp_pc = "as_completed"
    /\ \E order \in OrdersOf(FinishedFutures) : bp_queue' = order
    /\ bp_pending' = ProviderSet \ FinishedFutures
    /\ bp_pc' = "iterate"
    /\ UNCHANGED << bp_tx_hex, bp_futures, bp_completed, bp_result >>
    /\ UNCHANGED << mk_vars, t_vars, b_vars, p_vars, f_vars >>

\* IterateFuture, were an exception of future.result() not caught
IterateFuture_uncaught(outcome) ==
    IF outcome.kind = "txid" /\ outcome.value # ""
    THEN /\ bp_result' = [ status |-> "return", value |-> outcome.value ]
         /\ bp_pc' = "shutdown"
         /\ UNCHANGED bp_queue
    ELSE IF outcome.kind = "raise"
    THEN /\ bp_result' = [ status |-> "raise", value |-> outcome.value ]
         /\ bp_pc' = "shutdown"
         /\ UNCHANGED bp_queue
    ELSE /\ bp_queue' = Tail(bp_queue)
         /\ UNCHANGED << bp_pc, bp_result >>

\* the loop body for one future: result = future.result(); return it if it is
\* truthy, go on to the next future if it is not or the call raised
IterateFuture(outcome) ==
    IF outcome.kind = "txid" /\ outcome.value # ""
    THEN /\ bp_result' = [ status |-> "return", value |-> outcome.value ]
         /\ bp_pc' = "shutdown"
         /\ UNCHANGED bp_queue
    ELSE /\ bp_queue' = Tail(bp_queue)
         /\ UNCHANGED << bp_pc, bp_result >>

\* for future in as_completed(futures): the next future that is done
Iterate ==
    /\ bp_pc = "iterate" /\ bp_queue # << >>
    /\ IterateFuture(bp_futures[Head(bp_queue)].outcome)
    /\ UNCHANGED << bp_tx_hex, bp_futures, bp_completed, bp_pending >>
    /\ UNCHANGED << mk_vars, t_vars, b_vars, p_vars, f_vars >>

\* the loop ends when no future is left; BroadcastError is raised after the
\* with block
LoopEnd ==
    /\ bp_pc = "iterate" /\ bp_queue = << >> /\ bp_pending = { }
    /\ bp_result' = [ status |-> "raise", value |-> "BroadcastError" ]
    /\ bp_pc' = "shutdown"
    /\ UNCHANGED << bp_tx_hex, bp_futures, bp_completed, bp_queue, bp_pending >>
    /\ UNCHANGED << mk_vars, t_vars, b_vars, p_vars, f_vars >>

\* leaving the with block: ThreadPoolExecutor.__exit__ is shutdown(wait=True),
\* which joins the worker threads; then the function returns or raises
Shutdown ==
    /\ bp_pc = "shutdown"
    /\ FinishedFutures = ProviderSet
    /\ bp_pc' = "done"
    /\ UNCHANGED << bp_tx_hex, bp_futures, bp_completed, bp_queue, bp_pending,
                    bp_result >>
    /\ UNCHANGED << mk_vars, t_vars, b_vars, p_vars, f_vars >>

BroadcastInit ==
    /\ TreeInit /\ MerkleIdle /\ SpendIdle /\ FaucetIdle
    /\ bp_pc = "submit"
    /\ bp_tx_hex \in TxHexes
    /\ bp_futures = [ p \in ProviderSet |-> NoFuture ]
    /\ bp_completed = << >> /\ bp_queue = << >> /\ bp_pending = { }
    /\ bp_result = [ status |-> "none", value |-> "" ]

BroadcastNext == Submit \/ Complete \/ AsCompleted \/ Iterate \/ LoopEnd \/ Shutdown

\* every provider call ends (requests are made with a timeout) and the calling
\* thread keeps running
SpecBroadcast == BroadcastInit /\ [][BroadcastNext]_vars /\ WF_vars(BroadcastNext)

\* the provider calls that ended with a txid, in the order they ended
SuccessfulCompleted == SelectSeq(bp_completed, LAMBDA p : bp_futures[p].outcome.kind = "txid")

BroadcastOutcome ==
    bp_pc = "done"
    => /\ FinishedFutures = ProviderSet
       /\ (SuccessfulCompleted # << >>)
          => /\ bp_result.status = "return"
             /\ bp_result.value = bp_futures[Head(SuccessfulCompleted)].outcome.value
       /\ (bp_result.status = "raise")
          <=> \A p \in ProviderSet : bp_futures[p].outcome.kind \in { "raise", "none" }
       /\ (bp_result.status = "raise") => bp_result.value = "BroadcastError"

HasSignature(inp) ==
    \/ inp.tap_key_sig # None /\ inp.tap_key_sig[1] # << >>
    \/ inp.tap_leaf_script # None /\ inp.tap_script_sigs # << >>

\* the inputs (0-based) finalize() finds no signature on
UnsignedInputs(self) ==
    { i \in 0..(Len(self.inputs) - 1) : ~ HasSignature(self.inputs[i + 1]) }

\* the final witness of an input that has a signature
FinalWitness(inp) ==
    IF inp.tap_key_sig # None /\ inp.tap_key_sig[1] # << >>
    THEN << inp.tap_key_sig[1] >>
    ELSE FinalScriptWitness(inp)

\* the Psbt with the same fields and signatures that was never finalized
NeverFinalized(self) ==
    [ self EXCEPT !.tx.witnesses = << >>,
                  !.inputs = [ k \in 1..Len(self.inputs) |->
                                 [ self.inputs[k] EXCEPT !.final_script_witness = None ] ] ]

\* finalize() took the Psbt old to new and ended with outcome
FinalizeRetry(old, new, outcome) ==
    /\ outcome = "ok" <=> UnsignedInputs(old) = { }
    /\ outcome # "ok"
       => \E j \in UnsignedInputs(old) :
             /\ \A i \in UnsignedInputs(old) : j <= i
             /\ \A i \in 0..(j - 1) : WitnessOf(new.tx, i) = FinalWitness(old.inputs[i + 1])
             /\ \A i \in j..(Len(old.inputs) - 1) :
                   /\ new.inputs[i + 1] = old.inputs[i + 1]
                   /\ WitnessOf(new.tx, i) = WitnessOf(old.tx, i)
    /\ outcome = "ok"
       => \A i \in 0..(Len(old.inputs) - 1) :
             /\ WitnessOf(new.tx, i) = WitnessOf(finalize(NeverFinalized(old)).psbt.tx, i)
             /\ WitnessOf(new.tx, i) = FinalWitness(old.inputs[i + 1])

\* C29: finalize() works through the inputs in index order and keeps what it
\* has done when it raises: at a raise for input j the inputs before j carry
\* their final witness and the inputs from j on are unchanged; once every
\* input has a signature, finalize() succeeds and gives every input the
\* witness a single finalize() of the never-finalized Psbt gives it
C29_FinalizeRetry ==
    [][ (p_ret'.op = "finalize" /\ psbt.exists)
        => FinalizeRetry(psbt, psbt', p_ret'.outcome) ]_vars

\* a finalize() of a two-input Psbt succeeded after an earlier one had
\* stopped at the second input
C29_Witness ==
    /\ p_ret.op = "finalize" /\ p_ret.outcome = "ok" /\ p_ret.repeat
    /\ Len(psbt.inputs) = 2

-----------------------------------------------------------------------------
(* Specification SpecFaucet: the faucet server serving POST /drip requests  *)
(* on MaxRequests threads while the clock advances.                         *)

\* server threads
MaxRequests == 2

\* responses sent before the server stops taking requests
MaxResponses == 3

\* the clock advances in steps of TickSec seconds, MaxTicks times
TickSec == 43200

MaxTicks == 3

RATE_LIMIT_SEC == 86400

\* the addresses requests carry, by prefix and length
DripAddresses ==
    { [ prefix |-> "tb1q", len |-> 42 ],
      [ prefix |-> "tb1p", len |-> 62 ],
      [ prefix |-> "bc1q", len |-> 42 ] }

_valid_testnet_address(addr) ==
    /\ addr.len # 0
    /\ addr.prefix \in { "tb1q", "tb1p", "m", "n", "2" }
    /\ 26 <= addr.len /\ addr.len <= 90

\* how quick_transfer(FAUCET_WIF, "taproot", address, DRIP_AMOUNT, fee=FEE)
\* can end: a txid, None, or an exception
quick_transfer ==
    { [ kind |-> "txid", value |-> "txid" ],
      [ kind |-> "none", value |-> "" ],
      [ kind |-> "raise", value |-> "Exception" ] }

\* jsonify(...), status: the response is sent and the thread is free again
Respond(i, status, body) ==
    /\ f_responses' = Append(f_responses, [ address |-> f_req[i].address,
                                            now |-> f_req[i].now,
                                            status |-> status, body |-> body ])
    /\ f_req' = [ f_req EXCEPT ![i] = NoRequest ]

\* a request arrives at a free thread
Receive ==
    \E i \in 1..MaxRequests :
      \E address \in DripAddresses :
        /\ f_req[i].pc = "idle"
        /\ Len(f_responses) + Cardinality({ j \in 1..MaxRequests : f_req[j].pc # "idle" })
              < MaxResponses
        /\ f_req' = [ f_req EXCEPT ![i] = [ NoRequest EXCEPT !.pc = "check",
                                                             !.address = address ] ]
        /\ UNCHANGED << f_wif, f_now, f_last_drip, f_responses >>
        /\ UNCHANGED << mk_vars, t_vars, b_vars, p_vars, bp_vars >>

\* drip(), up to the rate limit: address check, FAUCET_WIF check, and
\* now = time.time() compared with _last_drip[address]
DripCheck ==
    \E i \in 1..MaxRequests :
      /\ f_req[i].pc = "check"
      /\ IF ~ _valid_testnet_address(f_req[i].address)
         THEN Respond(i, 400, "invalid address")
         ELSE IF ~ f_wif
         THEN Respond(i, 503, "faucet not configured")
         ELSE IF /\ f_last_drip[f_req[i].address] # None
                 /\ f_now - f_last_drip[f_req[i].address][1] < RATE_LIMIT_SEC
         THEN /\ f_responses' = Append(f_responses, [ address |-> f_req[i].address,
                                                      now |-> f_now, status |-> 429,
                                                      body |-> "limit 1 per address per day" ])
              /\ f_req' = [ f_req EXCEPT ![i] = NoRequest ]
         ELSE /\ f_req' = [ f_req EXCEPT ![i].pc = "transfer", ![i].now = f_now ]
              /\ UNCHANGED f_responses
      /\ UNCHANGED << f_wif, f_now, f_last_drip >>
      /\ UNCHANGED << mk_vars, t_vars, b_vars, p_vars, bp_vars >>

\* drip(): the quick_transfer call and the two error returns after it
DripTransfer ==
    \E i \in 1..MaxRequests :
      \E outcome \in quick_transfer :
        /\ f_req[i].pc = "transfer"
        /\ IF outcome.kind = "raise" THEN Respond(i, 500, outcome.value)
           ELSE IF outcome.kind = "none" \/ outcome.value = ""
           THEN Respond(i, 500, "broadcast failed")
           ELSE /\ f_req' = [ f_req EXCEPT ![i].pc = "record", ![i].txid = outcome.value ]
                /\ UNCHANGED f_responses
        /\ UNCHANGED << f_wif, f_now, f_last_drip >>
        /\ UNCHANGED << mk_vars, t_vars, b_vars, p_vars, bp_vars >>

\* drip(): _last_drip[address] = now and the response carrying the txid
DripRecord ==
    \E i \in 1..MaxRequests :
      /\ f_req[i].pc = "record"
      /\ f_last_drip' = [ f_last_drip EXCEPT ![f_req[i].address] = Some(f_req[i].now) ]
      /\ Respond(i, 200, f_req[i].txid)
      /\ UNCHANGED << f_wif, f_now >>
      /\ UNCHANGED << mk_vars, t_vars, b_vars, p_vars, bp_vars >>

\* time passes
Tick ==
    /\ f_now < MaxTicks * TickSec
    /\ f_now' = f_now + TickSec
    /\ UNCHANGED << f_wif, f_last_drip, f_req, f_responses >>
    /\ UNCHANGED << mk_vars, t_vars, b_vars, p_vars, bp_vars >>

FaucetInit ==
    /\ TreeInit /\ MerkleIdle /\ SpendIdle /\ BroadcastIdle
    /\ f_wif \in BOOLEAN
    /\ f_now = 0
    /\ f_last_drip = [ address \in DripAddresses |-> None ]
    /\ f_req = [ i \in 1..MaxRequests |-> NoRequest ]
    /\ f_responses = << >>

FaucetNext == Receive \/ DripCheck \/ DripTransfer \/ DripRecord \/ Tick

SpecFaucet == FaucetInit /\ [][FaucetNext]_vars

\* the responses carrying a txid
SuccessfulDrips == { k \in 1..Len(f_responses) : f_responses[k].status = 200 }

\* any two successful drips to one address are RATE_LIMIT_SEC or more apart
DripsApart ==
    \A j, k \in SuccessfulDrips :
       (j < k /\ f_responses[j].address = f_responses[k].address)
       => \/ f_responses[k].now - f_responses[j].now >= RATE_LIMIT_SEC
          \/ f_responses[j].now - f_responses[k].now >= RATE_LIMIT_SEC

\* a drip time is on record only for a request that was answered with a txid
FailuresRecordNothing ==
    \A address \in DripAddresses :
       f_last_drip[address] # None
       => \E k \in SuccessfulDrips :
             /\ f_responses[k].address = address
             /\ f_responses[k].now = f_last_drip[address][1]

\* C30: for every address, any two successful drips are at least
\* RATE_LIMIT_SEC apart under every interleaving of concurrent /drip
\* requests, and a request that fails records no drip time
C30_DripRateLimit == DripsApart /\ FailuresRecordNothing

====
